---- MODULE Spec2Model ----
(***************************************************************************)
(* Model of the backtesting core of the trading repository:                *)
(*   - run_backtest          (src/src/backtesting/engine.py)               *)
(*   - run_portfolio_backtest (src/src/backtesting/portfolio_engine.py)    *)
(*   - compute_metrics       (src/src/backtesting/metrics.py)              *)
(*   - calculate_pnl         (src/src/dashboard/page_modules/              *)
(*                            pnl_analysis.py)                             *)
(*                                                                         *)
(* Numbers.  The program computes in binary64 floats.  The model computes  *)
(* in exact rationals [n, d] kept in lowest terms with d > 0, extended     *)
(* with the IEEE values a division by zero produces in a pandas Series:    *)
(* NaN = [0, 0], +Inf = [1, 0], -Inf = [-1, 0].  Rounding error of the     *)
(* float operations is not modelled.                                       *)
(***************************************************************************)
EXTENDS Integers, Sequences, FiniteSets, TLC

\* ------------------------------------------------------------------ bounds

\* Number of rows of price_df a run iterates over (at most).
MaxBars == 3

\* Number of rows of the trade history calculate_pnl iterates over (at most).
MaxFills == 3

\* Number of timestamps of the pivoted frame a portfolio run iterates over (at most).
MaxStamps == 2

\* Calls of StrategyBot.run_check.
MaxChecks == 2

\* ------------------------------------------------------------- arithmetic

Abs(x) == IF x < 0 THEN -x ELSE x

Sign(x) == IF x < 0 THEN -1 ELSE IF x > 0 THEN 1 ELSE 0

RECURSIVE GCD(_, _)
GCD(a, b) == IF b = 0 THEN a ELSE GCD(b, a % b)

\* The float n/d: lowest terms, positive denominator; d = 0 gives NaN or +-Inf.
Rat(n, d) ==
    IF d = 0 THEN [n |-> Sign(n), d |-> 0]
    ELSE LET g == GCD(Abs(n), Abs(d))
             s == Sign(d)
         IN  [n |-> (s * n) \div g, d |-> (s * d) \div g]

I(x) == [n |-> x, d |-> 1]
Zero == I(0)
One  == I(1)
NaN  == [n |-> 0, d |-> 0]

IsFinite(a) == a.d # 0

RAdd(a, b) ==
    IF IsFinite(a) /\ IsFinite(b)
    THEN LET g == GCD(a.d, b.d)
         IN  Rat(a.n * (b.d \div g) + b.n * (a.d \div g), (a.d \div g) * b.d)
    ELSE IF IsFinite(b) THEN a
    ELSE IF IsFinite(a) THEN b
    ELSE IF a = b THEN a ELSE NaN

RNeg(a) == [n |-> -a.n, d |-> a.d]

RSub(a, b) == RAdd(a, RNeg(b))

RMul(a, b) ==
    IF IsFinite(a) /\ IsFinite(b)
    THEN LET g1 == GCD(Abs(a.n), b.d)
             g2 == GCD(Abs(b.n), a.d)
         IN  Rat((a.n \div g1) * (b.n \div g2), (a.d \div g2) * (b.d \div g1))
    ELSE [n |-> Sign(a.n) * Sign(b.n), d |-> 0]

\* Float division as numpy does it element-wise: x/0 is +-Inf, 0/0 is NaN.
RDiv(a, b) ==
    IF IsFinite(a) /\ IsFinite(b)
    THEN IF b.n = 0 THEN [n |-> Sign(a.n), d |-> 0]
         ELSE RMul(a, Rat(b.d, b.n))
    ELSE IF IsFinite(b) /\ a # NaN THEN [n |-> a.n * (IF b.n < 0 THEN -1 ELSE 1), d |-> 0]
    ELSE IF IsFinite(a) /\ b # NaN THEN Zero
    ELSE NaN

\* Comparisons are false as soon as one side is NaN.
RLt(a, b) ==
    IF IsFinite(a) /\ IsFinite(b)
    THEN LET g == GCD(a.d, b.d)
         IN  a.n * (b.d \div g) < b.n * (a.d \div g)
    ELSE /\ a # NaN
         /\ b # NaN
         /\ a # b
         /\ (a.d = 0 /\ a.n < 0) \/ (b.d = 0 /\ b.n > 0)

RLe(a, b) == a # NaN /\ b # NaN /\ (a = b \/ RLt(a, b))

RGt(a, b) == RLt(b, a)

RMax(a, b) == IF RLt(a, b) THEN b ELSE a

\* ----------------------------------------------------------------- inputs

\* A price column that is absent from the row (row.get falls to its default)
\* or holds None or 0: `row.get(col, 0.0) or 0.0` reads all three as 0.0.
Missing == -1

\* Rows of price_df: [open, low, close] in whole quote-currency units.
BarSet ==
    { [open |-> 100, low |-> 95, close |-> 102],
      [open |-> 103, low |-> 100, close |-> 105],
      [open |-> 104, low |-> 99, close |-> 98],
      [open |-> 92, low |-> 80, close |-> Missing],
      [open |-> Missing, low |-> Missing, close |-> Missing] }

\* Values of the caller's signal series; 2 stands for any value outside (-1, 0, 1).
RawSignals == {-1, 0, 1, 2}

\* A NaN in the caller's signal series.
NaNSignal == 9

\* Signal values of a run that is compared with its cleaned counterpart.
UncleanSignals == RawSignals \cup {NaNSignal}

InitialCashSet == {1000}

CommissionRates == {Zero, Rat(1, 10)}

\* Commission rates of the second run of a commission comparison.
HigherCommissionRates == {Rat(1, 10), Rat(1, 4)}

StopLossSet == {Zero, Rat(1, 10)}

\* entry_price = None
None == [n |-> 0, d |-> -1]

\* ----------------------------------------------------------- run_backtest

VARIABLES
    price_df,         \* rows of the price frame iterated so far
    signals,          \* the caller's signal series, one value per row
    initial_cash, commission_rate, stop_loss,
    cash, position, entry_price, last_signal, equity_list, trades,
    pc,               \* "loop": in the for loop; "done": returned; or the
                      \* exception raised
    equity_df, trades_df,
    alt               \* a second run on the same rows with another commission rate

engineVars ==
    << price_df, signals, initial_cash, commission_rate, stop_loss,
       cash, position, entry_price, last_signal, equity_list, trades,
       pc, equity_df, trades_df, alt >>

\* Faulty variant of Clean: only NaN is replaced, other values pass through.
CleanFillnaOnly(x) == IF x = NaNSignal THEN 0 ELSE x

\* s = signals.copy().fillna(0).apply(lambda x: int(x) if x in (-1,0,1) else 0)
Clean(x) ==
    LET filled == IF x = NaNSignal THEN 0 ELSE x
    IN  IF filled \in {-1, 0, 1} THEN filled ELSE 0

\* float(row.get(col, 0.0) or 0.0)
PriceOf(v) == IF v = Missing \/ v = 0 THEN Zero ELSE I(v)

StopCheck(pos, sl, entry) == RGt(pos, Zero) /\ RGt(sl, Zero) /\ entry # None

\* Faulty variant of StopPrice: the stop is the fraction itself, not one minus it.
StopPriceFraction(entry, sl) == RMul(entry, sl)

StopPrice(entry, sl) == RMul(entry, RSub(One, sl))

StopHit(price_low, stop_price) == RLe(price_low, stop_price)

Gross(pos, price) == RMul(pos, price)

CommissionAmt(base, rate) == RMul(base, rate)

\* Faulty variant of NetProceeds: the cash is credited with the gross value.
NetProceedsGross(gross, rate) == gross

NetProceeds(gross, rate) == RMul(gross, RSub(One, rate))

\* Faulty variant of EntryCond: the stored previous signal is not looked at.
EntryCondAnyLast(last, signal, price_open) == signal = 1 /\ RGt(price_open, Zero)

\* Faulty variant of EntryCond: the open price is not required to be positive.
EntryCondAnyOpen(last, signal, price_open) == last <= 0 /\ signal = 1

EntryCond(last, signal, price_open) ==
    last <= 0 /\ signal = 1 /\ RGt(price_open, Zero)

\* Faulty variant of ExitCond: the stored previous signal is not looked at.
ExitCondAnyLast(last, signal, pos, price_open) ==
    signal <= 0 /\ RGt(pos, Zero) /\ RGt(price_open, Zero)

\* Faulty variant of ExitCond: only a -1 signal exits, a 0 signal holds.
ExitCondSellOnly(last, signal, pos, price_open) ==
    last = 1 /\ signal < 0 /\ RGt(pos, Zero) /\ RGt(price_open, Zero)

ExitCond(last, signal, pos, price_open) ==
    last = 1 /\ signal <= 0 /\ RGt(pos, Zero) /\ RGt(price_open, Zero)

\* Faulty variant of BuyAmount: the cash is not divided by the open price.
BuyAmountUndivided(c, rate, price_open) == RMul(c, RSub(One, rate))

\* Faulty variant of BuyAmount: the commission is added to the cash instead of deducted.
BuyAmountPlusCommission(c, rate, price_open) == RDiv(RMul(c, RAdd(One, rate)), price_open)

BuyAmount(c, rate, price_open) == RDiv(RMul(c, RSub(One, rate)), price_open)

\* Faulty variant of CashAfterEntry: the cash is not zeroed by a BUY.
CashAfterEntryKept(c) == c

CashAfterEntry(c) == Zero

Equity(c, pos, price_close) == RAdd(c, RMul(pos, price_close))

\* Faulty variant of LastSignalAfterStop: the bar's signal is stored, as on
\* any other bar.
LastSignalAfterStopKept(signal) == signal

\* last_signal = 0 after a stop-loss exit
LastSignalAfterStop(signal) == 0

\* Faulty variant of EquityAtStop: the bar of a stop-loss exit records no equity point.
EquityAtStopSkipped(eq, c) == eq

\* equity_list.append(cash) before the `continue` of a stop-loss exit
EquityAtStop(eq, c) == Append(eq, c)

TradeRec(idx, side, price, amount, commission) ==
    [timestamp |-> idx, side |-> side, price |-> price,
     amount |-> amount, commission |-> commission]

\* One iteration of the for loop on the locals s, for row `row` at index idx.
LoopBody(s, idx, row, raw, rate, sl) ==
    LET price_open  == PriceOf(row.open)
        price_low   == PriceOf(row.low)
        price_close == PriceOf(row.close)
        signal      == Clean(raw)
        stop_price  == StopPrice(s.entry_price, sl)
    IN  IF StopCheck(s.position, sl, s.entry_price) /\ StopHit(price_low, stop_price)
        THEN LET gross == Gross(s.position, stop_price)
                 c     == NetProceeds(gross, rate)
             IN  [s EXCEPT
                    !.cash = c,
                    !.trades = Append(@, TradeRec(idx, "SELL (SL)", stop_price,
                                                  s.position, CommissionAmt(gross, rate))),
                    !.position = Zero,
                    !.last_signal = LastSignalAfterStop(signal),
                    !.equity_list = EquityAtStop(@, c)]
        ELSE LET t ==
                   IF EntryCond(s.last_signal, signal, price_open)
                   THEN LET amount == BuyAmount(s.cash, rate, price_open)
                        IN  [s EXCEPT
                               !.entry_price = price_open,
                               !.position = amount,
                               !.trades = Append(@, TradeRec(idx, "BUY", price_open, amount,
                                                             CommissionAmt(s.cash, rate))),
                               !.cash = CashAfterEntry(s.cash)]
                   ELSE IF ExitCond(s.last_signal, signal, s.position, price_open)
                   THEN LET gross == Gross(s.position, price_open)
                        IN  [s EXCEPT
                               !.cash = NetProceeds(gross, rate),
                               !.trades = Append(@, TradeRec(idx, "SELL", price_open,
                                                             s.position, CommissionAmt(gross, rate))),
                               !.position = Zero]
                   ELSE s
             IN  [t EXCEPT
                    !.last_signal = signal,
                    !.equity_list = Append(@, Equity(t.cash, t.position, price_close))]

\* The locals of run_backtest before the loop.
Locals(c0) ==
    [cash |-> c0, position |-> Zero, entry_price |-> None, last_signal |-> 0,
     equity_list |-> << >>, trades |-> << >>]

\* equity_df["peak"] = equity_df["equity"].cummax()
RECURSIVE CumMax(_)
CumMax(eq) ==
    IF eq = << >> THEN << >>
    ELSE LET n    == Len(eq)
             prev == CumMax(SubSeq(eq, 1, n - 1))
         IN  Append(prev, IF n = 1 THEN eq[1] ELSE RMax(prev[n - 1], eq[n]))

\* equity_df["drawdown"] = equity_df["equity"] / equity_df["peak"] - 1.0
Drawdown(eq, peak) == [i \in 1..Len(eq) |-> RSub(RDiv(eq[i], peak[i]), One)]

BuildEquityDf(eq) ==
    [equity |-> eq, peak |-> CumMax(eq), drawdown |-> Drawdown(eq, CumMax(eq))]

NoFrame == [equity |-> << >>, peak |-> << >>, drawdown |-> << >>]

NoAlt == [commission_rate |-> Zero, run |-> Locals(Zero)]

\* ---------------------------------------------------------- calculate_pnl

VARIABLES
    trade_rows,       \* rows of the input trades_df iterated so far
    positions,        \* symbol -> [buys, total_cost, total_amount]
    closed_trades,
    trade,            \* the row the for loop is on
    sell_amount, realized_pnl,
    pnl_pc,           \* "rows": for loop; "while": matching loop; "done": returned
    pnl_df

pnlVars ==
    << trade_rows, positions, closed_trades, trade, sell_amount, realized_pnl,
       pnl_pc, pnl_df >>

Symbols == {"BTC/USDC", "ETH/USDC"}

FillAmounts == {5, 10, 12}

FillPrices == {100, 110, 120}

ParPrices == {100}

NoTrade == [timestamp |-> 0, symbol |-> "", side |-> "", amount |-> 0, price |-> 0]

\* positions[symbol] = {'buys': [], 'total_cost': 0, 'total_amount': 0}
NewPosition == [buys |-> << >>, total_cost |-> 0, total_amount |-> 0]

\* Faulty variant of WithSymbol: every other symbol's entry is set up anew.
WithSymbolOnly(pos, symbol) ==
    [x \in (DOMAIN pos) \cup {symbol} |->
        IF x = symbol /\ x \in DOMAIN pos THEN pos[x] ELSE NewPosition]

\* positions after `if symbol not in positions: positions[symbol] = {...}`
WithSymbol(pos, symbol) ==
    [x \in (DOMAIN pos) \cup {symbol} |-> IF x \in DOMAIN pos THEN pos[x] ELSE NewPosition]

Min(a, b) == IF a < b THEN a ELSE b

\* Faulty variant of FullyUsed: a used-up lot is never dequeued.
FullyUsedNever(amount) == FALSE

\* buy_tr['amount'] < 1e-9, for amounts in whole units
FullyUsed(amount) == amount <= 0

\* Faulty variant of WhileBody: the newest lot is matched first.
WhileBodyNewestFirst(buys, s_amount, s_price, pnl) ==
    LET n            == Len(buys)
        buy_tr       == buys[n]
        match_amount == Min(s_amount, buy_tr.amount)
        left         == buy_tr.amount - match_amount
    IN  [realized_pnl |-> pnl + (match_amount * s_price - match_amount * buy_tr.price),
         sell_amount  |-> s_amount - match_amount,
         buys         |-> IF FullyUsed(left)
                          THEN SubSeq(buys, 1, n - 1)
                          ELSE Append(SubSeq(buys, 1, n - 1),
                                      [amount |-> left, price |-> buy_tr.price])]

\* Faulty variant of WhileBody: the profit is taken on the whole remaining
\* sell amount, not on the matched part.
WhileBodyWholeSell(buys, s_amount, s_price, pnl) ==
    LET buy_tr       == buys[1]
        match_amount == Min(s_amount, buy_tr.amount)
        left         == buy_tr.amount - match_amount
    IN  [realized_pnl |-> pnl + (s_amount * s_price - s_amount * buy_tr.price),
         sell_amount  |-> s_amount - match_amount,
         buys         |-> IF FullyUsed(left)
                          THEN Tail(buys)
                          ELSE << [amount |-> left, price |-> buy_tr.price] >> \o Tail(buys)]

\* One iteration of `while sell_amount > 0 and positions[symbol]['buys']`.
WhileBody(buys, s_amount, s_price, pnl) ==
    LET buy_tr       == buys[1]
        match_amount == Min(s_amount, buy_tr.amount)
        cost         == match_amount * buy_tr.price
        proceeds     == match_amount * s_price
        left         == buy_tr.amount - match_amount
    IN  [realized_pnl |-> pnl + (proceeds - cost),
         sell_amount  |-> s_amount - match_amount,
         buys         |-> IF FullyUsed(left)
                          THEN Tail(buys)
                          ELSE << [amount |-> left, price |-> buy_tr.price] >> \o Tail(buys)]

\* Faulty variant of ClosedRecord: the fill's timestamp is not carried over.
ClosedRecordUnstamped(tr, pnl) ==
    [timestamp |-> 0, symbol |-> tr.symbol, pnl |-> pnl]

ClosedRecord(tr, pnl) ==
    [timestamp |-> tr.timestamp, symbol |-> tr.symbol, pnl |-> pnl]

\* pnl_df = pd.DataFrame(closed_trades) with pnl_df['cumulative_pnl'] = pnl.cumsum()
RECURSIVE WithCumSum(_)
WithCumSum(closed) ==
    IF closed = << >> THEN << >>
    ELSE LET n    == Len(closed)
             prev == WithCumSum(SubSeq(closed, 1, n - 1))
             before == IF n = 1 THEN 0 ELSE prev[n - 1].cumulative_pnl
         IN  Append(prev, [timestamp |-> closed[n].timestamp, symbol |-> closed[n].symbol,
                           pnl |-> closed[n].pnl,
                           cumulative_pnl |-> before + closed[n].pnl])

InitLedger ==
    /\ trade_rows = << >>
    /\ positions = << >>
    /\ closed_trades = << >>
    /\ trade = NoTrade
    /\ sell_amount = 0
    /\ realized_pnl = 0
    /\ pnl_pc = "rows"
    /\ pnl_df = << >>

LedgerNotCalled ==
    /\ trade_rows = << >>
    /\ positions = << >>
    /\ closed_trades = << >>
    /\ trade = NoTrade
    /\ sell_amount = 0
    /\ realized_pnl = 0
    /\ pnl_pc = "idle"
    /\ pnl_df = << >>

\* ------------------------------------------------- run_portfolio_backtest

VARIABLES
    combined_df,      \* rows of the pivoted frame iterated so far, in index order
    signal_data,      \* per row, the value signal_data[symbol].get(idx, 0) of each symbol
    p_initial_cash, allocation, p_commission_rate, p_stop_loss,
    p_cash, total_equity,
    p_positions,      \* the dict `positions`, as its items in insertion order
    p_equity_list, p_trades,
    p_pc,             \* "bar": between two rows; "signals": in the loop over
                      \* price_data.keys(); "done": returned
    p_key,            \* position of the signal loop in price_data.keys()
    p_equity_df, p_trades_df

portfolioVars ==
    << combined_df, signal_data, p_initial_cash, allocation, p_commission_rate,
       p_stop_loss, p_cash, total_equity, p_positions, p_equity_list, p_trades,
       p_pc, p_key, p_equity_df, p_trades_df >>

\* price_data.keys(), in the insertion order of the caller's dict.
PriceDataKeys == << "BTC/USDC", "ETH/USDC" >>

\* Bars of one symbol at one timestamp.
PortfolioBars ==
    { [open |-> I(100), low |-> I(95), close |-> I(125)],
      [open |-> I(80), low |-> I(64), close |-> I(50)] }

\* The symbol has no bar at the timestamp: the pivot fills its columns with NaN.
NoBar == [open |-> NaN, low |-> NaN, close |-> NaN]

\* Rows of the pivoted frame: a timestamp is in the index when at least one
\* symbol has a bar there.
CombinedRows ==
    { r \in [Symbols -> PortfolioBars \cup {NoBar}] : \E s \in Symbols : r[s] # NoBar }

\* Signal values; -1 takes the same branches as 0.
PortfolioSignals == {0, 1}

\* Signal values as a caller may pass them: nothing cleans signal_data.
RawPortfolioSignals == {0, 1, 2}

Allocations == {Rat(1, 2), Rat(3, 4)}

\* Faulty variant of NotNa: a NaN passes for a value.
NotNaAlways(x) == TRUE

\* pd.notna(x)
NotNa(x) == x # NaN

\* Faulty variant of Holds: no symbol is ever found among the positions.
HoldsNever(ps, symbol) == FALSE

Holds(ps, symbol) == \E i \in 1..Len(ps) : ps[i].symbol = symbol

PositionOf(ps, symbol) == ps[CHOOSE i \in 1..Len(ps) : ps[i].symbol = symbol]

\* del positions[symbol]
Without(ps, symbol) == SelectSeq(ps, LAMBDA p : p.symbol # symbol)

\* current_portfolio_value: positions whose close is NaN are skipped.
RECURSIVE CurrentPortfolioValue(_, _)
CurrentPortfolioValue(ps, row) ==
    IF ps = << >> THEN Zero
    ELSE LET n           == Len(ps)
             pos         == ps[n]
             close_price == row[pos.symbol].close
             before      == CurrentPortfolioValue(SubSeq(ps, 1, n - 1), row)
         IN  IF NotNa(close_price) THEN RAdd(before, RMul(pos.amount, close_price))
             ELSE before

\* row.get(f"close_{symbol}", 0): a symbol in `positions` was bought at one of
\* its bars, so its close column exists and the default is not taken.
CloseOrDefault(row, symbol) == row[symbol].close

\* final_portfolio_value = sum(pos['amount'] * row.get(f"close_{symbol}", 0) ...)
RECURSIVE FinalPortfolioValue(_, _)
FinalPortfolioValue(ps, row) ==
    IF ps = << >> THEN Zero
    ELSE LET n   == Len(ps)
             pos == ps[n]
         IN  RAdd(FinalPortfolioValue(SubSeq(ps, 1, n - 1), row),
                  RMul(pos.amount, CloseOrDefault(row, pos.symbol)))

\* Faulty variant of PortfolioStopPrice: stop_loss is taken for the fraction
\* of the entry price that is kept.
PortfolioStopPriceOfFraction(entry, sl) == RMul(entry, sl)

PortfolioStopPrice(entry, sl) == RMul(entry, RSub(One, sl))

PortfolioStopHit(low_price, stop_price) == NotNa(low_price) /\ RLe(low_price, stop_price)

\* Faulty variant of ExitProceeds: an exit credits nothing to the cash.
ExitProceedsWithheld(gross, commission_amt) == Zero

\* Faulty variant of ExitProceeds: the commission is not deducted.
ExitProceedsGross(gross, commission_amt) == gross

ExitProceeds(gross, commission_amt) == RSub(gross, commission_amt)

PortfolioTrade(idx, symbol, side, price, amount, commission) ==
    [timestamp |-> idx, symbol |-> symbol, side |-> side, price |-> price,
     amount |-> amount, commission |-> commission]

\* Faulty variant of KeptAfterStop: a stopped symbol is not deleted.
KeptAfterStopAlways(pos, hit) == << pos >>

\* for symbol in symbols_to_exit: del positions[symbol]
KeptAfterStop(pos, hit) == IF hit THEN << >> ELSE << pos >>

\* The stop-loss pass over positions.items() and the deletion of the exited
\* symbols: the cash after it, the trades it appends, the positions it leaves.
RECURSIVE StopLossPass(_, _, _, _, _, _)
StopLossPass(ps, row, idx, c, rate, sl) ==
    IF ps = << >> THEN [cash |-> c, trades |-> << >>, positions |-> << >>]
    ELSE LET pos            == Head(ps)
             low_price      == row[pos.symbol].low
             stop_price     == PortfolioStopPrice(pos.entry_price, sl)
             hit            == PortfolioStopHit(low_price, stop_price)
             gross          == RMul(pos.amount, stop_price)
             commission_amt == RMul(gross, rate)
             rest           == StopLossPass(Tail(ps), row, idx,
                                            IF hit THEN RAdd(c, ExitProceeds(gross, commission_amt))
                                            ELSE c,
                                            rate, sl)
         IN  [cash |-> rest.cash,
              trades |-> (IF hit
                          THEN << PortfolioTrade(idx, pos.symbol, "SELL (SL)", stop_price,
                                                 pos.amount, commission_amt) >>
                          ELSE << >>) \o rest.trades,
              positions |-> KeptAfterStop(pos, hit) \o rest.positions]

SignalExits(signal) == signal <= 0

SignalEnters(signal) == signal = 1

CapitalToAllocate(equity, alloc) == RMul(equity, alloc)

\* Faulty variant of CanAfford: the entry is not refused when the cash is short.
CanAffordAlways(c, capital) == TRUE

\* cash >= capital_to_allocate
CanAfford(c, capital) == RLe(capital, c)

\* Faulty variant of AmountToBuy: the commission is charged on top of the
\* allocated capital instead of being taken out of it.
AmountToBuyOnTop(cash_for_trade, commission_amt, price_open) ==
    RDiv(cash_for_trade, price_open)

AmountToBuy(cash_for_trade, commission_amt, price_open) ==
    RDiv(RSub(cash_for_trade, commission_amt), price_open)

\* One iteration of the loop over price_data.keys(), on s = [cash, positions, trades].
ForSymbol(s, symbol, idx, row, signal, equity, alloc, rate) ==
    LET price_open == row[symbol].open
    IN  IF Holds(s.positions, symbol)
        THEN IF SignalExits(signal) /\ NotNa(price_open)
             THEN LET pos            == PositionOf(s.positions, symbol)
                      gross          == RMul(pos.amount, price_open)
                      commission_amt == RMul(gross, rate)
                  IN  [cash |-> RAdd(s.cash, ExitProceeds(gross, commission_amt)),
                       trades |-> Append(s.trades,
                                         PortfolioTrade(idx, symbol, "SELL", price_open,
                                                        pos.amount, commission_amt)),
                       positions |-> Without(s.positions, symbol)]
             ELSE s
        ELSE LET capital_to_allocate == CapitalToAllocate(equity, alloc)
             IN  IF SignalEnters(signal) /\ CanAfford(s.cash, capital_to_allocate)
                    /\ NotNa(price_open)
                 THEN LET cash_for_trade == capital_to_allocate
                          commission_amt == RMul(cash_for_trade, rate)
                          amount_to_buy  == AmountToBuy(cash_for_trade, commission_amt,
                                                        price_open)
                      IN  [cash |-> RSub(s.cash, cash_for_trade),
                           trades |-> Append(s.trades,
                                             PortfolioTrade(idx, symbol, "BUY", price_open,
                                                            amount_to_buy, commission_amt)),
                           positions |-> Append(s.positions,
                                                [symbol |-> symbol, amount |-> amount_to_buy,
                                                 entry_price |-> price_open])]
                 ELSE s

\* The largest value of eq[1..i] that is not NaN (NaN when there is none).
RECURSIVE MaxUpTo(_, _)
MaxUpTo(eq, i) ==
    IF i = 0 THEN NaN
    ELSE LET m == MaxUpTo(eq, i - 1)
         IN  IF eq[i] = NaN THEN m
             ELSE IF m = NaN THEN eq[i]
             ELSE RMax(m, eq[i])

\* equity_df["equity"].cummax(): NaN entries are skipped and stay NaN.
PeakSkipNa(eq) == [i \in 1..Len(eq) |-> IF eq[i] = NaN THEN NaN ELSE MaxUpTo(eq, i)]

BuildPortfolioEquityDf(eq) ==
    [equity |-> eq, peak |-> PeakSkipNa(eq), drawdown |-> Drawdown(eq, PeakSkipNa(eq))]

PortfolioNotCalled ==
    /\ combined_df = << >>
    /\ signal_data = << >>
    /\ p_initial_cash = 0
    /\ allocation = Zero
    /\ p_commission_rate = Zero
    /\ p_stop_loss = Zero
    /\ p_cash = Zero
    /\ total_equity = Zero
    /\ p_positions = << >>
    /\ p_equity_list = << >>
    /\ p_trades = << >>
    /\ p_pc = "idle"
    /\ p_key = 0
    /\ p_equity_df = NoFrame
    /\ p_trades_df = << >>

\* --------------------------------------------------------- compute_metrics

VARIABLES
    metrics,          \* the dict compute_metrics returns
    metrics_pc        \* "idle": not called; "returned"; or the exception raised

metricsVars == << metrics, metrics_pc >>

\* The default of periods_per_year.
PeriodsPerYear == 365

\* equity_df["equity"].iloc[-1] / equity_df["equity"].iloc[0] - 1.0
TotalReturn(eq) == RSub(RDiv(eq[Len(eq)], eq[1]), One)

\* (1 + total_return) ** (periods_per_year / n_periods) - 1 if n_periods > 0
\* else 0.0.  The power is kept as its base and exponent.
AnnualizedReturn(total_return, n_periods) ==
    IF n_periods > 0
    THEN [base |-> RAdd(One, total_return), exponent |-> Rat(PeriodsPerYear, n_periods)]
    ELSE Zero

\* float(equity_df["drawdown"].min()): NaN entries are skipped.
RECURSIVE MinSkipNa(_)
MinSkipNa(xs) ==
    IF xs = << >> THEN NaN
    ELSE LET n == Len(xs)
             m == MinSkipNa(SubSeq(xs, 1, n - 1))
         IN  IF xs[n] = NaN THEN m
             ELSE IF m = NaN THEN xs[n]
             ELSE IF RLt(xs[n], m) THEN xs[n] ELSE m

NoMetrics == [total_return |-> NaN, annualized_return |-> NaN, max_drawdown |-> NaN]

MetricsNotCalled == metrics = NoMetrics /\ metrics_pc = "idle"

\* -------------------------------------------------------------- show_report

VARIABLES
    pnls,             \* the P&L of each pair, in the order of the loop
    extra,            \* the trade-level statistics merged into the report
    report_pc         \* "idle": statistics not computed yet; "shown"

reportVars == << pnls, extra, report_pc >>

\* extra before the trade log is looked at.
NoExtra == [win_rate |-> None, avg_pnl_pct |-> None, num_trades |-> 0]

\* cost = buy["price"] * buy["amount"] + buy.get("commission", 0)
PairCost(buy) == RAdd(RMul(buy.price, buy.amount), buy.commission)

\* proceeds = sell["price"] * sell["amount"] - sell.get("commission", 0)
PairProceeds(sell) == RSub(RMul(sell.price, sell.amount), sell.commission)

\* pnl_pct = (pnl / cost) * 100 if cost else 0
PnlPct(pnl, cost) == IF cost # Zero THEN RMul(RDiv(pnl, cost), I(100)) ELSE Zero

\* The body of the loop for the rows at i and i + 1.
PairStats(buy, sell) ==
    LET cost == PairCost(buy)
        pnl  == RSub(PairProceeds(sell), cost)
    IN  [pnl |-> pnl, pnl_pct |-> PnlPct(pnl, cost)]

\* for i in range(0, len(df) - 1, 2), from the row at place i on (the first
\* row is at place 1 here): rows are taken two by two, a last row without a
\* partner is left out.
RECURSIVE PairPnls(_, _)
PairPnls(df, i) ==
    IF i + 1 > Len(df) THEN << >>
    ELSE << PairStats(df[i], df[i + 1]) >> \o PairPnls(df, i + 2)

RECURSIVE SumPct(_)
SumPct(ps) == IF ps = << >> THEN Zero ELSE RAdd(ps[1].pnl_pct, SumPct(Tail(ps)))

\* wins, total and the dict built from them.
ExtraStats(ps) ==
    LET wins  == Cardinality({k \in 1..Len(ps) : RGt(ps[k].pnl, Zero)})
        total == Len(ps)
    IN  [win_rate    |-> IF total # 0 THEN RDiv(I(wins), I(total)) ELSE None,
         avg_pnl_pct |-> IF total # 0 THEN RDiv(SumPct(ps), I(total)) ELSE None,
         num_trades  |-> total]

ReportNotCalled == pnls = << >> /\ extra = NoExtra /\ report_pc = "idle"

\* ------------------------------------------------- StrategyBot.run_check

VARIABLES
    last_processed_candle,  \* self.last_processed_candle: analysis symbol -> timestamp
    last_fetched_df,        \* self.last_fetched_df
    stop_loss_pct,          \* config['stop_loss_pct']
    markets,                \* the symbols of client.exchange.markets
    bot_pc,                 \* "idle": between checks; "check": inside run_check
    checks,                 \* the number of run_check calls started
    open_positions,         \* the local dict of run_check
    stop_keys,              \* what is left of list(open_positions.keys())
    sym_i,                  \* the place of the signal loop in config['symbols']
    ticker,                 \* the last answer of client.fetch_ticker
    log,                    \* the line the last signal iteration appended to logs
    orders                  \* the orders this check has sent to the trader

botVars ==
    << last_processed_candle, last_fetched_df, stop_loss_pct, markets, bot_pc, checks,
       open_positions, stop_keys, sym_i, ticker, log, orders >>

\* config['symbols']: the symbols the bot analyses.
ConfigSymbols == << "BTC/USDC", "ETH/USDT" >>

AnalysisSymbols == {ConfigSymbols[i] : i \in 1..Len(ConfigSymbols)}

\* The order of balance['total'].items(), as "<asset>/USDC".
BalanceOrder == << "BTC/USDC", "ETH/USDC" >>

StopLossPcts == {5, 100, 150}

EntryPrices == {0, 100}

PositionAmount == 2

AllocationUsd == 50

CandleStamps == {1, 2}

\* self.last_processed_candle.get(symbol) of a symbol not recorded yet.
NoCandle == 0

\* An execution symbol of None.
NoSymbol == ""

\* fetch_ticker: None after an exception, a ticker without 'last', or a
\* ticker with a last price.  (A ticker whose 'last' is None is not modelled.)
NoTicker == [failed |-> TRUE, has_last |-> FALSE, last |-> 0]

Tickers ==
    {NoTicker, [failed |-> FALSE, has_last |-> FALSE, last |-> 0]}
        \cup {[failed |-> FALSE, has_last |-> TRUE, last |-> p] : p \in {0, 90, 100}}

\* Faulty variant of GetLivePrice: without a ticker the price is taken to be
\* out of reach of any stop.
GetLivePriceUnknownHigh(t) == IF ~t.failed /\ t.has_last THEN t.last ELSE 1000000

\* Trader.get_live_price
GetLivePrice(t) == IF ~t.failed /\ t.has_last THEN t.last ELSE 0

\* stop_loss_price = entry_price * (1 - self.config['stop_loss_pct'] / 100)
StopLossPrice(entry, pct) == RMul(I(entry), RSub(One, Rat(pct, 100)))

\* The two tests of the stop-loss pass.
StopLossTriggered(entry, current_price, pct) ==
    entry > 0 /\ RLe(I(current_price), StopLossPrice(entry, pct))

\* Trader.get_execution_symbol
GetExecutionSymbol(analysis_symbol, mkts) ==
    CASE analysis_symbol = "BTC/USDC" -> "BTC/USDC"
      [] analysis_symbol = "ETH/USDT" -> IF "ETH/USDC" \in mkts THEN "ETH/USDC" ELSE NoSymbol
      [] OTHER -> NoSymbol

\* What fetch_ohlcv returns, with the strategy's signal and the close of the
\* last closed candle df.iloc[-2]; close = Missing is a NaN.
ShortDf == [rows |-> 1, last_candle_ts |-> 1, signal |-> 0, close |-> Missing]

NoDf == [rows |-> 0, last_candle_ts |-> 0, signal |-> 0, close |-> Missing]

FullDfs ==
    [rows : {3}, last_candle_ts : CandleStamps, signal : {-1, 0, 1}, close : {Missing, 0, 100}]

\* How the body of the try block goes: to its end, or to the except clause
\* from fetch_ohlcv or from the strategy function.
FetchOutcomes ==
    ({"ok"} \X ({ShortDf} \cup FullDfs))
        \cup {<< "fetch raises", ShortDf >>}
        \cup ({"strategy raises"} \X {d \in FullDfs : d.signal = 1 /\ d.close = 100})

\* An order as the trader receives it; `reason` tells the pass that sent it.
Order(symbol, side, amount, analysis_symbol, reason) ==
    [symbol |-> symbol, side |-> side, amount |-> amount,
     analysis_symbol |-> analysis_symbol, reason |-> reason]

\* del open_positions[symbol]
Deleted(ops, symbol) == [x \in (DOMAIN ops) \ {symbol} |-> ops[x]]

\* Faulty variant of SameCandle: the recorded candle is never recognised.
SameCandleNever(lpc, analysis_symbol, df) == FALSE

\* The candle is the one the bot has recorded for the symbol.
SameCandle(lpc, analysis_symbol, df) == lpc[analysis_symbol] = df.last_candle_ts

\* pd.isna(close_price) or close_price <= 0
InvalidClose(close) == close = Missing \/ close <= 0

\* self.last_processed_candle[analysis_symbol] = last_candle_ts, reached only
\* at the end of the try block.
Recorded(lpc, analysis_symbol, df, finished) ==
    IF finished THEN [lpc EXCEPT ![analysis_symbol] = df.last_candle_ts] ELSE lpc

\* What the iteration appends to logs before it ends or continues.
LogLine(how, df, lpc, analysis_symbol) ==
    IF how # "ok" THEN "FATAL ERROR"
    ELSE IF df.rows < 2 THEN "Not enough data"
    ELSE IF SameCandle(lpc, analysis_symbol, df) THEN "Pulse"
    ELSE IF InvalidClose(df.close) THEN "Invalid close price"
    ELSE "New candle"

\* The orders one pass of the signal loop sends for an analysis symbol whose
\* candle is new and whose close is valid.
SignalOrders(analysis_symbol, execution_symbol, df, ops) ==
    IF df.signal = 1 /\ (execution_symbol = NoSymbol \/ execution_symbol \notin DOMAIN ops)
    THEN IF execution_symbol # NoSymbol
         THEN << Order(execution_symbol, "buy", RDiv(I(AllocationUsd), I(df.close)),
                       analysis_symbol, "signal") >>
         ELSE << >>
    ELSE IF df.signal = -1 /\ execution_symbol # NoSymbol /\ execution_symbol \in DOMAIN ops
    THEN << Order(execution_symbol, "sell", I(ops[execution_symbol].amount),
                  analysis_symbol, "signal") >>
    ELSE << >>

BotNotCalled ==
    /\ last_processed_candle = << >>
    /\ last_fetched_df = NoDf
    /\ stop_loss_pct = 0
    /\ markets = {}
    /\ bot_pc = "off"
    /\ checks = 0
    /\ open_positions = << >>
    /\ stop_keys = << >>
    /\ sym_i = 0
    /\ ticker = NoTicker
    /\ log = ""
    /\ orders = << >>

\* The state of a call of run_backtest when it reaches the for loop.
InitRun ==
    /\ price_df = << >>
    /\ signals = << >>
    /\ initial_cash \in InitialCashSet
    /\ commission_rate \in CommissionRates
    /\ stop_loss \in StopLossSet
    /\ cash = I(initial_cash)
    /\ position = Zero
    /\ entry_price = None
    /\ last_signal = 0
    /\ equity_list = << >>
    /\ trades = << >>
    /\ pc = "loop"
    /\ equity_df = NoFrame
    /\ trades_df = << >>

InitEngine ==
    InitRun /\ alt = NoAlt /\ LedgerNotCalled /\ PortfolioNotCalled /\ MetricsNotCalled /\ ReportNotCalled /\ BotNotCalled

\* The for loop takes the next row of price_df and its signal.
IterateRow(row, raw) ==
    LET idx == Len(price_df) + 1
        s   == [cash |-> cash, position |-> position, entry_price |-> entry_price,
                last_signal |-> last_signal, equity_list |-> equity_list,
                trades |-> trades]
        r   == LoopBody(s, idx, row, raw, commission_rate, stop_loss)
    IN  /\ pc = "loop"
        /\ Len(price_df) < MaxBars
        /\ price_df' = Append(price_df, row)
        /\ signals' = Append(signals, raw)
        /\ cash' = r.cash
        /\ position' = r.position
        /\ entry_price' = r.entry_price
        /\ last_signal' = r.last_signal
        /\ equity_list' = r.equity_list
        /\ trades' = r.trades
        /\ UNCHANGED << initial_cash, commission_rate, stop_loss, pc, equity_df, trades_df >>
        /\ UNCHANGED << pnlVars, portfolioVars, metricsVars, reportVars, botVars >>

ProcessBar ==
    \E row \in BarSet, raw \in RawSignals :
        /\ IterateRow(row, raw)
        /\ UNCHANGED alt

\* Faulty variant of SignalMissing: a row without a signal is processed with
\* the signal 0 instead of raising.
SignalMissingReadAsZero ==
    \E row \in BarSet :
        LET s == [cash |-> cash, position |-> position, entry_price |-> entry_price,
                  last_signal |-> last_signal, equity_list |-> equity_list,
                  trades |-> trades]
            r == LoopBody(s, Len(price_df) + 1, row, 0, commission_rate, stop_loss)
        IN  /\ pc = "loop"
            /\ Len(price_df) < MaxBars
            /\ Len(signals) = Len(price_df)
            /\ price_df' = Append(price_df, row)
            /\ cash' = r.cash
            /\ position' = r.position
            /\ entry_price' = r.entry_price
            /\ last_signal' = r.last_signal
            /\ equity_list' = r.equity_list
            /\ trades' = r.trades
            /\ UNCHANGED << signals, initial_cash, commission_rate, stop_loss, pc,
                            equity_df, trades_df, alt >>
            /\ UNCHANGED << pnlVars, portfolioVars, metricsVars, reportVars, botVars >>

\* The for loop takes a row whose timestamp is not in the index of the signal
\* series: s.loc[idx] raises KeyError, the call returns nothing.
SignalMissing ==
    \E row \in BarSet :
        /\ pc = "loop"
        /\ Len(price_df) < MaxBars
        /\ price_df' = Append(price_df, row)
        /\ pc' = "KeyError"
        /\ UNCHANGED << signals, initial_cash, commission_rate, stop_loss,
                        cash, position, entry_price, last_signal, equity_list, trades,
                        equity_df, trades_df, alt >>
        /\ UNCHANGED << pnlVars, portfolioVars, metricsVars, reportVars, botVars >>

\* Faulty variant of Return: a frame without rows is refused.
ReturnUnlessEmpty ==
    /\ pc = "loop"
    /\ Len(price_df) > 0
    /\ pc' = "done"
    /\ equity_df' = BuildEquityDf(equity_list)
    /\ trades_df' = trades
    /\ UNCHANGED << price_df, signals, initial_cash, commission_rate, stop_loss,
                    cash, position, entry_price, last_signal, equity_list, trades, alt >>
    /\ UNCHANGED << pnlVars, portfolioVars, metricsVars, reportVars, botVars >>

\* price_df is exhausted: build the output frames and return.
Return ==
    /\ pc = "loop"
    /\ pc' = "done"
    /\ equity_df' = BuildEquityDf(equity_list)
    /\ trades_df' = trades
    /\ UNCHANGED << price_df, signals, initial_cash, commission_rate, stop_loss,
                    cash, position, entry_price, last_signal, equity_list, trades, alt >>
    /\ UNCHANGED << pnlVars, portfolioVars, metricsVars, reportVars, botVars >>

\* Two runs over the same rows and signals, the second with a higher
\* commission rate: both for loops advance by the same row.
InitComparison ==
    /\ InitRun
    /\ \E c2 \in HigherCommissionRates :
         /\ RLt(commission_rate, c2)
         /\ alt = [commission_rate |-> c2, run |-> Locals(I(initial_cash))]
    /\ LedgerNotCalled
    /\ PortfolioNotCalled
    /\ MetricsNotCalled /\ ReportNotCalled /\ BotNotCalled

ProcessBarBoth ==
    \E row \in BarSet, raw \in RawSignals :
        /\ IterateRow(row, raw)
        /\ alt' = [alt EXCEPT !.run = LoopBody(alt.run, Len(price_df) + 1, row, raw,
                                               alt.commission_rate, stop_loss)]

\* The caller's signal value with NaN and everything outside (-1, 0, 1)
\* replaced by 0 before the call.
ReplacedByZero(raw) == IF raw \in {-1, 0, 1} THEN raw ELSE 0

\* Two runs over the same rows, the second on the signal series with the
\* invalid values replaced by 0.  The commission rate plays no part in the
\* cleaning of the signals and is fixed.
InitCoercion ==
    /\ InitRun
    /\ commission_rate = Rat(1, 10)
    /\ alt = [commission_rate |-> commission_rate, run |-> Locals(I(initial_cash))]
    /\ LedgerNotCalled
    /\ PortfolioNotCalled
    /\ MetricsNotCalled /\ ReportNotCalled /\ BotNotCalled

ProcessBarReplaced ==
    \E row \in BarSet, raw \in UncleanSignals :
        /\ IterateRow(row, raw)
        /\ alt' = [alt EXCEPT !.run = LoopBody(alt.run, Len(price_df) + 1, row,
                                               ReplacedByZero(raw),
                                               alt.commission_rate, stop_loss)]

\* ------------------------------------------------- calculate_pnl, actions

EngineNotCalled ==
    /\ price_df = << >>
    /\ signals = << >>
    /\ initial_cash = 0
    /\ commission_rate = Zero
    /\ stop_loss = Zero
    /\ cash = Zero
    /\ position = Zero
    /\ entry_price = None
    /\ last_signal = 0
    /\ equity_list = << >>
    /\ trades = << >>
    /\ pc = "idle"
    /\ equity_df = NoFrame
    /\ trades_df = << >>
    /\ alt = NoAlt

\* The for loop reads the next row of trades_df.
NextRow(symbol, side, amount, price) ==
    [timestamp |-> Len(trade_rows) + 1, symbol |-> symbol, side |-> side,
     amount |-> amount, price |-> price]

\* A row with side == 'buy': a new lot at the back of the symbol's list.
BuyRow(prices) ==
    \E symbol \in Symbols, amount \in FillAmounts, price \in prices :
        LET row == NextRow(symbol, "buy", amount, price)
            pos == WithSymbol(positions, symbol)
        IN  /\ pnl_pc = "rows"
            /\ Len(trade_rows) < MaxFills
            /\ trade_rows' = Append(trade_rows, row)
            /\ trade' = row
            /\ positions' =
                 [pos EXCEPT ![symbol] =
                    [buys         |-> Append(@.buys, [amount |-> amount, price |-> price]),
                     total_cost   |-> @.total_cost + amount * price,
                     total_amount |-> @.total_amount + amount]]
            /\ UNCHANGED << closed_trades, sell_amount, realized_pnl, pnl_pc, pnl_df >>
            /\ UNCHANGED << engineVars, portfolioVars, metricsVars, reportVars, botVars >>

\* A row with side == 'sell': enter the matching loop.
SellRow(prices) ==
    \E symbol \in Symbols, amount \in FillAmounts, price \in prices :
        LET row == NextRow(symbol, "sell", amount, price)
        IN  /\ pnl_pc = "rows"
            /\ Len(trade_rows) < MaxFills
            /\ trade_rows' = Append(trade_rows, row)
            /\ trade' = row
            /\ positions' = WithSymbol(positions, symbol)
            /\ sell_amount' = amount
            /\ realized_pnl' = 0
            /\ pnl_pc' = "while"
            /\ UNCHANGED << closed_trades, pnl_df >>
            /\ UNCHANGED << engineVars, portfolioVars, metricsVars, reportVars, botVars >>

BuyFill == BuyRow(FillPrices)

SellFill == SellRow(FillPrices)

\* The same rows with every fill at one price: the matching loop compares
\* and subtracts amounts only.
BuyFillAtPar == BuyRow(ParPrices)

SellFillAtPar == SellRow(ParPrices)

WhileCond == sell_amount > 0 /\ positions[trade.symbol].buys # << >>

\* One iteration of the matching loop.
MatchLot ==
    /\ pnl_pc = "while"
    /\ WhileCond
    /\ LET r == WhileBody(positions[trade.symbol].buys, sell_amount, trade.price,
                          realized_pnl)
       IN  /\ realized_pnl' = r.realized_pnl
           /\ sell_amount' = r.sell_amount
           /\ positions' = [positions EXCEPT ![trade.symbol].buys = r.buys]
    /\ UNCHANGED << trade_rows, closed_trades, trade, pnl_pc, pnl_df >>
    /\ UNCHANGED << engineVars, portfolioVars, metricsVars, reportVars, botVars >>

\* The matching loop is left: the sell's record is appended.
CloseTrade ==
    /\ pnl_pc = "while"
    /\ ~WhileCond
    /\ closed_trades' = Append(closed_trades, ClosedRecord(trade, realized_pnl))
    /\ pnl_pc' = "rows"
    /\ UNCHANGED << trade_rows, positions, trade, sell_amount, realized_pnl, pnl_df >>
    /\ UNCHANGED << engineVars, portfolioVars, metricsVars, reportVars, botVars >>

\* trades_df is exhausted (or empty): return the P&L frame, empty if no sell closed.
ReturnPnl ==
    /\ pnl_pc = "rows"
    /\ pnl_pc' = "done"
    /\ pnl_df' = WithCumSum(closed_trades)
    /\ UNCHANGED << trade_rows, positions, closed_trades, trade, sell_amount, realized_pnl >>
    /\ UNCHANGED << engineVars, portfolioVars, metricsVars, reportVars, botVars >>

InitPnl == InitLedger /\ EngineNotCalled /\ PortfolioNotCalled /\ MetricsNotCalled /\ ReportNotCalled /\ BotNotCalled

NextPnl == BuyFill \/ SellFill \/ MatchLot \/ CloseTrade \/ ReturnPnl

NextPnlAtPar == BuyFillAtPar \/ SellFillAtPar \/ MatchLot \/ CloseTrade \/ ReturnPnl

\* ---------------------------------------- run_portfolio_backtest, actions

\* The state of a call of run_portfolio_backtest when it reaches the loop
\* over combined_df.iterrows().
InitPortfolio ==
    /\ combined_df = << >>
    /\ signal_data = << >>
    /\ p_initial_cash \in InitialCashSet
    /\ allocation \in Allocations
    /\ p_commission_rate \in CommissionRates
    /\ p_stop_loss \in StopLossSet
    /\ p_cash = I(p_initial_cash)
    /\ total_equity = I(p_initial_cash)
    /\ p_positions = << >>
    /\ p_equity_list = << >>
    /\ p_trades = << >>
    /\ p_pc = "bar"
    /\ p_key = 0
    /\ p_equity_df = NoFrame
    /\ p_trades_df = << >>
    /\ EngineNotCalled
    /\ LedgerNotCalled
    /\ MetricsNotCalled /\ ReportNotCalled /\ BotNotCalled

\* The loop takes the next row: total_equity is updated from the closes, then
\* the stop-loss pass runs over every open position.
TakeRow(row, sig) ==
        LET idx == Len(combined_df) + 1
            r   == StopLossPass(p_positions, row, idx, p_cash, p_commission_rate, p_stop_loss)
        IN  /\ p_pc = "bar"
            /\ Len(combined_df) < MaxStamps
            /\ combined_df' = Append(combined_df, row)
            /\ signal_data' = Append(signal_data, sig)
            /\ total_equity' = RAdd(p_cash, CurrentPortfolioValue(p_positions, row))
            /\ p_cash' = r.cash
            /\ p_trades' = p_trades \o r.trades
            /\ p_positions' = r.positions
            /\ p_pc' = "signals"
            /\ p_key' = 1
            /\ UNCHANGED << p_initial_cash, allocation, p_commission_rate, p_stop_loss,
                            p_equity_list, p_equity_df, p_trades_df >>
            /\ UNCHANGED << engineVars, pnlVars, metricsVars, reportVars, botVars >>

UpdateAndStop ==
    \E row \in CombinedRows, sig \in [Symbols -> PortfolioSignals] : TakeRow(row, sig)

\* The same step when the caller's signal series also hold values outside
\* {-1, 0, 1}.
UpdateAndStopRaw ==
    \E row \in CombinedRows, sig \in [Symbols -> RawPortfolioSignals] : TakeRow(row, sig)

\* Faulty variant of SignalStep: total_equity is computed again after the
\* symbol's trade.
SignalStepRefreshing ==
    LET idx    == Len(combined_df)
        symbol == PriceDataKeys[p_key]
        r      == ForSymbol([cash |-> p_cash, positions |-> p_positions, trades |-> p_trades],
                            symbol, idx, combined_df[idx], signal_data[idx][symbol],
                            total_equity, allocation, p_commission_rate)
    IN  /\ p_pc = "signals"
        /\ p_key <= Len(PriceDataKeys)
        /\ p_cash' = r.cash
        /\ p_positions' = r.positions
        /\ p_trades' = r.trades
        /\ p_key' = p_key + 1
        /\ total_equity' = RAdd(r.cash, CurrentPortfolioValue(r.positions, combined_df[idx]))
        /\ UNCHANGED << combined_df, signal_data, p_initial_cash, allocation,
                        p_commission_rate, p_stop_loss, p_equity_list,
                        p_pc, p_equity_df, p_trades_df >>
        /\ UNCHANGED << engineVars, pnlVars, metricsVars, reportVars, botVars >>

\* Faulty variant of SignalStep: the stop-loss check runs once more after the
\* symbol's signal has been handled.
SignalStepThenStop ==
    LET idx    == Len(combined_df)
        symbol == PriceDataKeys[p_key]
        r      == ForSymbol([cash |-> p_cash, positions |-> p_positions, trades |-> p_trades],
                            symbol, idx, combined_df[idx], signal_data[idx][symbol],
                            total_equity, allocation, p_commission_rate)
        st     == StopLossPass(r.positions, combined_df[idx], idx, r.cash,
                               p_commission_rate, p_stop_loss)
    IN  /\ p_pc = "signals"
        /\ p_key <= Len(PriceDataKeys)
        /\ p_cash' = st.cash
        /\ p_positions' = st.positions
        /\ p_trades' = r.trades \o st.trades
        /\ p_key' = p_key + 1
        /\ UNCHANGED << combined_df, signal_data, p_initial_cash, allocation,
                        p_commission_rate, p_stop_loss, total_equity, p_equity_list,
                        p_pc, p_equity_df, p_trades_df >>
        /\ UNCHANGED << engineVars, pnlVars, metricsVars, reportVars, botVars >>

\* One iteration of the loop over price_data.keys(): a signal exit of a held
\* symbol, or an entry of a symbol that is not held.
SignalStep ==
    LET idx    == Len(combined_df)
        symbol == PriceDataKeys[p_key]
        r      == ForSymbol([cash |-> p_cash, positions |-> p_positions, trades |-> p_trades],
                            symbol, idx, combined_df[idx], signal_data[idx][symbol],
                            total_equity, allocation, p_commission_rate)
    IN  /\ p_pc = "signals"
        /\ p_key <= Len(PriceDataKeys)
        /\ p_cash' = r.cash
        /\ p_positions' = r.positions
        /\ p_trades' = r.trades
        /\ p_key' = p_key + 1
        /\ UNCHANGED << combined_df, signal_data, p_initial_cash, allocation,
                        p_commission_rate, p_stop_loss, total_equity, p_equity_list,
                        p_pc, p_equity_df, p_trades_df >>
        /\ UNCHANGED << engineVars, pnlVars, metricsVars, reportVars, botVars >>

\* The row's equity point is appended after the signal loop.
AppendEquity ==
    /\ p_pc = "signals"
    /\ p_key > Len(PriceDataKeys)
    /\ p_equity_list' = Append(p_equity_list,
                               RAdd(p_cash, FinalPortfolioValue(p_positions,
                                                                combined_df[Len(combined_df)])))
    /\ p_pc' = "bar"
    /\ UNCHANGED << combined_df, signal_data, p_initial_cash, allocation, p_commission_rate,
                    p_stop_loss, p_cash, total_equity, p_positions, p_trades, p_key,
                    p_equity_df, p_trades_df >>
    /\ UNCHANGED << engineVars, pnlVars, metricsVars, reportVars, botVars >>

\* combined_df is exhausted: build the output frames and return.  (A call
\* whose frames hold no row at all is not modelled.)
ReturnPortfolio ==
    /\ p_pc = "bar"
    /\ Len(combined_df) > 0
    /\ p_pc' = "done"
    /\ p_equity_df' = BuildPortfolioEquityDf(p_equity_list)
    /\ p_trades_df' = p_trades
    /\ UNCHANGED << combined_df, signal_data, p_initial_cash, allocation, p_commission_rate,
                    p_stop_loss, p_cash, total_equity, p_positions, p_equity_list, p_trades,
                    p_key >>
    /\ UNCHANGED << engineVars, pnlVars, metricsVars, reportVars, botVars >>

NextPortfolio == UpdateAndStop \/ SignalStep \/ AppendEquity \/ ReturnPortfolio

\* ------------------------------------------------ compute_metrics, actions

\* The backtest report passes the frame run_backtest returned to
\* compute_metrics.  On a frame without rows, .iloc[-1] raises IndexError
\* before n_periods is looked at.  The Sharpe ratio (a standard deviation and
\* a square root) is not modelled.
ComputeMetrics ==
    /\ pc = "done"
    /\ metrics_pc = "idle"
    /\ IF Len(equity_df.equity) = 0
       THEN /\ metrics_pc' = "IndexError"
            /\ UNCHANGED metrics
       ELSE LET total_return == TotalReturn(equity_df.equity)
                n_periods    == Len(equity_df.equity)
            IN  /\ metrics_pc' = "returned"
                /\ metrics' = [total_return |-> total_return,
                               annualized_return |-> AnnualizedReturn(total_return, n_periods),
                               max_drawdown |-> MinSkipNa(equity_df.drawdown)]
    /\ UNCHANGED << engineVars, pnlVars, portfolioVars, reportVars, botVars >>

\* ---------------------------------------------------- show_report, actions

\* After compute_metrics has returned, show_report computes the trade-level
\* statistics from the trade log of run_backtest; without a trade, extra
\* keeps its defaults.  The charts and tables are not modelled.
TradeStats ==
    /\ metrics_pc = "returned"
    /\ report_pc = "idle"
    /\ IF trades_df # << >>
       THEN LET ps == PairPnls(trades_df, 1)
            IN  /\ pnls' = [k \in 1..Len(ps) |-> ps[k].pnl]
                /\ extra' = ExtraStats(ps)
       ELSE /\ pnls' = << >>
            /\ extra' = NoExtra
    /\ report_pc' = "shown"
    /\ UNCHANGED << engineVars, pnlVars, portfolioVars, metricsVars, botVars >>

\* ------------------------------------------ StrategyBot.run_check, actions

\* StrategyBot.__init__
InitBot ==
    /\ last_processed_candle = [a \in AnalysisSymbols |-> NoCandle]
    /\ last_fetched_df = NoDf
    /\ stop_loss_pct \in StopLossPcts
    /\ markets \in {{"BTC/USDC"}, {"BTC/USDC", "ETH/USDC"}}
    /\ bot_pc = "idle"
    /\ checks = 0
    /\ open_positions = << >>
    /\ stop_keys = << >>
    /\ sym_i = 0
    /\ ticker = NoTicker
    /\ log = ""
    /\ orders = << >>
    /\ EngineNotCalled
    /\ LedgerNotCalled
    /\ PortfolioNotCalled
    /\ MetricsNotCalled
    /\ ReportNotCalled

\* run_check starts: open_positions is built from what the exchange reports.
StartCheck ==
    \E held \in SUBSET Symbols :
        \E entry \in [held -> EntryPrices] :
            /\ bot_pc = "idle"
            /\ checks < MaxChecks
            /\ checks' = checks + 1
            /\ bot_pc' = "check"
            /\ open_positions' = [x \in held |-> [amount |-> PositionAmount,
                                                  entry_price |-> entry[x]]]
            /\ stop_keys' = SelectSeq(BalanceOrder, LAMBDA x : x \in held)
            /\ sym_i' = 1
            /\ orders' = << >>
            /\ UNCHANGED << last_processed_candle, last_fetched_df, stop_loss_pct, markets,
                            ticker, log >>
            /\ UNCHANGED << engineVars, pnlVars, portfolioVars, metricsVars, reportVars >>

\* One iteration of the stop-loss loop.
StopLossStep ==
    \E t \in Tickers :
        LET symbol        == Head(stop_keys)
            position_     == open_positions[symbol]
            current_price == GetLivePrice(t)
        IN  /\ bot_pc = "check"
            /\ stop_keys # << >>
            /\ ticker' = t
            /\ stop_keys' = Tail(stop_keys)
            /\ IF StopLossTriggered(position_.entry_price, current_price, stop_loss_pct)
               THEN /\ orders' = Append(orders, Order(symbol, "sell", I(position_.amount),
                                                      NoSymbol, "stop-loss"))
                    /\ open_positions' = Deleted(open_positions, symbol)
               ELSE UNCHANGED << orders, open_positions >>
            /\ UNCHANGED << last_processed_candle, last_fetched_df, stop_loss_pct, markets,
                            bot_pc, checks, sym_i, log >>
            /\ UNCHANGED << engineVars, pnlVars, portfolioVars, metricsVars, reportVars >>

\* One iteration of the signal loop, with its try block.
AnalyzeSymbol ==
    \E o \in FetchOutcomes :
        LET how              == o[1]
            df               == o[2]
            analysis_symbol  == ConfigSymbols[sym_i]
            execution_symbol == GetExecutionSymbol(analysis_symbol, markets)
            acts             == /\ how = "ok"
                                /\ df.rows >= 2
                                /\ ~SameCandle(last_processed_candle, analysis_symbol, df)
                                /\ ~InvalidClose(df.close)
        IN  /\ bot_pc = "check"
            /\ stop_keys = << >>
            /\ sym_i <= Len(ConfigSymbols)
            /\ sym_i' = sym_i + 1
            /\ last_fetched_df' = IF how = "fetch raises" THEN last_fetched_df ELSE df
            /\ orders' = IF acts
                         THEN orders \o SignalOrders(analysis_symbol, execution_symbol, df,
                                                     open_positions)
                         ELSE orders
            /\ last_processed_candle' =
                  Recorded(last_processed_candle, analysis_symbol, df, acts)
            /\ log' = LogLine(how, df, last_processed_candle, analysis_symbol)
            /\ UNCHANGED << stop_loss_pct, markets, bot_pc, checks, open_positions,
                            stop_keys, ticker >>
            /\ UNCHANGED << engineVars, pnlVars, portfolioVars, metricsVars, reportVars >>

\* return logs: the locals of the call go out of scope.
ReturnLogs ==
    /\ bot_pc = "check"
    /\ stop_keys = << >>
    /\ sym_i > Len(ConfigSymbols)
    /\ bot_pc' = "idle"
    /\ open_positions' = << >>
    /\ sym_i' = 0
    /\ ticker' = NoTicker
    /\ log' = ""
    /\ orders' = << >>
    /\ UNCHANGED << last_processed_candle, last_fetched_df, stop_loss_pct, markets, checks,
                    stop_keys >>
    /\ UNCHANGED << engineVars, pnlVars, portfolioVars, metricsVars, reportVars >>

vars == << engineVars, pnlVars, portfolioVars, metricsVars, reportVars, botVars >>

Init == InitEngine

Next == ProcessBar \/ Return

Spec == Init /\ [][Next]_vars

NextComparison == ProcessBarBoth \/ Return

SpecComparison == InitComparison /\ [][NextComparison]_vars

SpecPnl == InitPnl /\ [][NextPnl]_vars

\* calculate_pnl is sequential code: a loop that can take its next step
\* takes it, and the function returns once the rows are exhausted.
SpecPnlFair ==
    /\ InitPnl
    /\ [][NextPnlAtPar]_vars
    /\ WF_vars(MatchLot)
    /\ WF_vars(CloseTrade)
    /\ WF_vars(ReturnPnl)

SpecPortfolio == InitPortfolio /\ [][NextPortfolio]_vars

NextPortfolioRaw == UpdateAndStopRaw \/ SignalStep \/ AppendEquity \/ ReturnPortfolio

SpecPortfolioRaw == InitPortfolio /\ [][NextPortfolioRaw]_vars

NextCoercion == ProcessBarReplaced \/ Return

SpecCoercion == InitCoercion /\ [][NextCoercion]_vars

\* run_backtest on a price frame that may hold a timestamp the signal series lacks.
NextMisaligned == ProcessBar \/ SignalMissing \/ Return

SpecMisaligned == Init /\ [][NextMisaligned]_vars

\* run_backtest followed by compute_metrics on the frame it returned.
NextMetrics == Next \/ ComputeMetrics

SpecMetrics == Init /\ [][NextMetrics]_vars

\* show_report on the frames run_backtest returned.
NextReport == Next \/ ComputeMetrics \/ TradeStats

SpecReport == Init /\ [][NextReport]_vars

\* Checks of one StrategyBot, one after the other.
NextBot == StartCheck \/ StopLossStep \/ AnalyzeSymbol \/ ReturnLogs

SpecBot == InitBot /\ [][NextBot]_vars

\* A call of either engine: run_backtest or run_portfolio_backtest.
InitEngines == InitEngine \/ InitPortfolio

NextEngines == Next \/ NextPortfolio

SpecEngines == InitEngines /\ [][NextEngines]_vars

\* ------------------------------------------------------------------ claims

IsSell(t) == t.side \in {"SELL", "SELL (SL)"}

Last(seq) == seq[Len(seq)]

\* C1: the trade log of run_backtest strictly alternates: it starts with a
\* BUY, a BUY is followed only by a SELL or SELL (SL), and a sell-type record
\* only by a BUY, for any rows (missing or zero prices included).
C1_StrictAlternation ==
    /\ Len(trades) > 0 => trades[1].side = "BUY"
    /\ \A i \in 1..(Len(trades) - 1) :
         /\ trades[i].side = "BUY" => IsSell(trades[i + 1])
         /\ IsSell(trades[i]) => trades[i + 1].side = "BUY"

\* C2: on a bar where a position is open, stop_loss > 0 and the bar's low is
\* <= entry_price * (1 - stop_loss), exactly one trade is recorded for the
\* bar: a "SELL (SL)" priced at exactly entry_price * (1 - stop_loss),
\* whatever the bar's signal.
C2_StopLossPrecedence ==
    [][ ( /\ Len(price_df') = Len(price_df) + 1
          /\ RGt(position, Zero)
          /\ RGt(stop_loss, Zero)
          /\ RLe(PriceOf(Last(price_df').low),
                 RMul(entry_price, RSub(One, stop_loss))) )
        => /\ Len(trades') = Len(trades) + 1
           /\ SubSeq(trades', 1, Len(trades)) = trades
           /\ Last(trades').timestamp = Len(price_df')
           /\ Last(trades').side = "SELL (SL)"
           /\ Last(trades').price = RMul(entry_price, RSub(One, stop_loss)) ]_vars

\* C2 witness: the last row fired the stop although its signal asked for an
\* exit and its open was usable; the fill is above the row's low and not its open.
C2_Witness ==
    /\ Len(trades) > 0
    /\ Last(trades).side = "SELL (SL)"
    /\ Last(trades).timestamp = Len(price_df)
    /\ Clean(Last(signals)) = -1
    /\ RGt(PriceOf(Last(price_df).open), Zero)
    /\ RLt(PriceOf(Last(price_df).low), Last(trades).price)
    /\ Last(trades).price # PriceOf(Last(price_df).open)

\* C3: after every bar cash and position are never both positive: an open
\* position means cash = 0, and positive cash means no position.
C3_AllInAllOut ==
    /\ RGt(position, Zero) => cash = Zero
    /\ RGt(cash, Zero) => position = Zero

\* C3 witness: a position re-opened after a completed round trip holds all the cash.
C3_Witness ==
    /\ Len(trades) = 3
    /\ RGt(position, Zero)
    /\ cash = Zero

ExampleBars ==
    << [open |-> 100, low |-> 95, close |-> 102],
       [open |-> 103, low |-> 100, close |-> 105],
       [open |-> 104, low |-> 99, close |-> 98] >>

ExampleSignals == << 1, 0, -1 >>

ExampleRun ==
    /\ pc = "done"
    /\ price_df = ExampleBars
    /\ signals = ExampleSignals
    /\ initial_cash = 1000
    /\ commission_rate = Zero
    /\ stop_loss = Zero

\* C4 as stated: the example run records BUY 10 @ 100 and SELL 10 @ 104,
\* ends with cash 1040 and returns three equity points.
C4_ExampleAsStated ==
    ExampleRun =>
        /\ Len(trades_df) = 2
        /\ trades_df[1].side = "BUY" /\ trades_df[1].price = I(100)
        /\ trades_df[1].amount = I(10)
        /\ trades_df[2].side = "SELL" /\ trades_df[2].price = I(104)
        /\ trades_df[2].amount = I(10)
        /\ cash = I(1040)
        /\ Len(equity_df.equity) = 3

\* C4 amended: the example run records BUY 10 @ 100 on the first bar and
\* SELL 10 @ 103 on the second bar (the first bar whose signal is <= 0),
\* ends with cash 1030 and returns three equity points.
C4_Example ==
    ExampleRun =>
        /\ trades_df = << TradeRec(1, "BUY", I(100), I(10), Zero),
                          TradeRec(2, "SELL", I(103), I(10), Zero) >>
        /\ cash = I(1030)
        /\ Len(equity_df.equity) = 3

C4_Witness == ExampleRun /\ Len(trades_df) = 2

\* C5: with commission_rate = 0 and a trade log of one BUY followed by one
\* signal-based SELL, the final equity is initial_cash * exit_price / entry_price.
C5_RoundTripConservation ==
    ( /\ pc = "done"
      /\ commission_rate = Zero
      /\ Len(trades_df) = 2
      /\ trades_df[1].side = "BUY"
      /\ trades_df[2].side = "SELL" )
    => Last(equity_df.equity) =
         RDiv(RMul(I(initial_cash), trades_df[2].price), trades_df[1].price)

C5_Witness ==
    /\ pc = "done"
    /\ commission_rate = Zero
    /\ Len(trades_df) = 2
    /\ trades_df[1].side = "BUY"
    /\ trades_df[2].side = "SELL"
    /\ trades_df[2].price # trades_df[1].price
    /\ Len(price_df) = MaxBars

FinalEquity == Last(equity_list)

AltFinalEquity == Last(alt.run.equity_list)

\* C6 as stated: for the same rows, signals, initial_cash and stop_loss, the
\* run with the higher commission rate ends with strictly less equity.
C6_StrictlyDecreasing ==
    (pc = "done" /\ Len(equity_list) > 0) => RLt(AltFinalEquity, FinalEquity)

\* C6 amended: the run with the higher commission rate never ends with more
\* equity, and ends with strictly less whenever the run records at least one
\* trade and the final equity at the lower rate is positive.
C6_CommissionDrag ==
    (pc = "done" /\ Len(equity_list) > 0) =>
        /\ RLe(AltFinalEquity, FinalEquity)
        /\ (Len(trades) > 0 /\ RGt(FinalEquity, Zero)) => RLt(AltFinalEquity, FinalEquity)

C6_Witness ==
    /\ pc = "done"
    /\ Len(trades) >= 2
    /\ Len(alt.run.trades) = Len(trades)
    /\ RGt(AltFinalEquity, Zero)
    /\ RLt(AltFinalEquity, FinalEquity)

\* C7: in every returned equity trace peak is the running maximum of equity,
\* drawdown = equity/peak - 1 is <= 0 at every point, and drawdown = 0
\* wherever equity = peak.
C7_DrawdownBound ==
    pc = "done" =>
        \A i \in 1..Len(equity_df.equity) :
            /\ \A j \in 1..i : RLe(equity_df.equity[j], equity_df.peak[i])
            /\ \E j \in 1..i : equity_df.equity[j] = equity_df.peak[i]
            /\ RLe(equity_df.drawdown[i], Zero)
            /\ equity_df.equity[i] = equity_df.peak[i] => equity_df.drawdown[i] = Zero

\* The lots the buy fills of `symbol` enqueued, in input order.
RECURSIVE BoughtLots(_, _)
BoughtLots(rows, symbol) ==
    IF rows = << >> THEN << >>
    ELSE LET n    == Len(rows)
             prev == BoughtLots(SubSeq(rows, 1, n - 1), symbol)
         IN  IF rows[n].symbol = symbol /\ rows[n].side = "buy"
             THEN Append(prev, [amount |-> rows[n].amount, price |-> rows[n].price])
             ELSE prev

\* The open lots of `symbol` are the bought lots minus a fully consumed
\* prefix; only the front lot may be partly consumed, every later lot is whole.
OldestFirst(symbol) ==
    LET bought == BoughtLots(trade_rows, symbol)
        buys   == positions[symbol].buys
        k      == Len(bought) - Len(buys)
    IN  /\ k >= 0
        /\ \A i \in 2..Len(buys) : buys[i] = bought[k + i]
        /\ Len(buys) > 0 =>
             /\ buys[1].price = bought[k + 1].price
             /\ buys[1].amount > 0
             /\ buys[1].amount <= bought[k + 1].amount

\* A step of the matching loop takes min(sell_amount, front lot) from the
\* front lot only and realizes match_amount * (sell_price - lot_price).
MatchesFront ==
    (pnl_pc = "while" /\ positions' # positions) =>
        LET symbol == trade.symbol
            front  == positions[symbol].buys[1]
            m      == sell_amount - sell_amount'
        IN  /\ m = Min(sell_amount, front.amount)
            /\ realized_pnl' = realized_pnl + m * (trade.price - front.price)
            /\ \A x \in DOMAIN positions : x # symbol => positions'[x] = positions[x]
            /\ positions'[symbol].buys \in
                 { Tail(positions[symbol].buys),
                   << [amount |-> front.amount - m, price |-> front.price] >>
                      \o Tail(positions[symbol].buys) }

IsFifoExample(rows) ==
    /\ Len(rows) = 3
    /\ \A i \in 1..3 : rows[i].symbol = rows[1].symbol
    /\ rows[1].side = "buy" /\ rows[1].amount = 10 /\ rows[1].price = 100
    /\ rows[2].side = "buy" /\ rows[2].amount = 5 /\ rows[2].price = 110
    /\ rows[3].side = "sell" /\ rows[3].amount = 12 /\ rows[3].price = 120

FifoExample ==
    (pnl_pc = "done" /\ IsFifoExample(trade_rows)) =>
        /\ Len(pnl_df) = 1
        /\ pnl_df[1].pnl = 220
        /\ positions[trade_rows[1].symbol].buys = << [amount |-> 3, price |-> 110] >>

\* C9: calculate_pnl matches every sell against the symbol's open lots
\* strictly oldest-first, realizing match_amount * (sell_price - lot_price)
\* per matched portion; BUY 10@100, BUY 5@110, SELL 12@120 yields pnl 220
\* and leaves exactly one open lot {amount 3, price 110}.
C9_FifoMatching ==
    /\ [](\A symbol \in DOMAIN positions : OldestFirst(symbol))
    /\ [][MatchesFront]_vars
    /\ []FifoExample

\* C9 witness: the example history has been processed; its sell consumed the
\* whole first lot and part of the second.
C9_Witness ==
    /\ pnl_pc = "done"
    /\ IsFifoExample(trade_rows)
    /\ closed_trades = << [timestamp |-> 3, symbol |-> trade_rows[1].symbol, pnl |-> 220] >>

\* The sell fills among `rows`, in input order, as (timestamp, symbol).
RECURSIVE SellStamps(_)
SellStamps(rows) ==
    IF rows = << >> THEN << >>
    ELSE LET n    == Len(rows)
             prev == SellStamps(SubSeq(rows, 1, n - 1))
         IN  IF rows[n].side = "sell"
             THEN Append(prev, << rows[n].timestamp, rows[n].symbol >>)
             ELSE prev

Stamps(records) == [i \in 1..Len(records) |-> << records[i].timestamp, records[i].symbol >>]

\* C10: the realized-P&L trace holds exactly one record per sell fill, in
\* input order, carrying that fill's timestamp and symbol, and no record for
\* a buy fill.
C10_OneRecordPerSell ==
    /\ pnl_pc = "rows" => Stamps(closed_trades) = SellStamps(trade_rows)
    /\ pnl_pc = "done" => Stamps(pnl_df) = SellStamps(trade_rows)

\* C10 witness: a returned trace for a history with a buy and two sells of
\* different symbols.
C10_Witness ==
    /\ pnl_pc = "done"
    /\ Len(trade_rows) = 3
    /\ Len(pnl_df) = 2
    /\ pnl_df[1].symbol # pnl_df[2].symbol

\* ------------------------------------------- claims, run_portfolio_backtest

HasSide(ts, side) == \E i \in 1..Len(ts) : ts[i].side = side

\* C11: in run_portfolio_backtest the shared cash balance is never negative,
\* after every stop-loss exit, signal exit and entry at every timestamp.
C11_CashNonNegative == p_pc # "idle" => RLe(Zero, p_cash)

\* A timestamp is over in a run that has made a stop-loss exit, a signal exit
\* and an entry that followed them.
C11_Witness ==
    /\ p_pc = "bar"
    /\ HasSide(p_trades, "SELL (SL)")
    /\ HasSide(p_trades, "SELL")
    /\ \E i \in 1..Len(p_trades) : p_trades[i].side = "BUY" /\ i > 2

\* The timestamps at which a symbol has a bar, and the union over the symbols.
SymbolTimestamps(s) == { i \in 1..Len(combined_df) : combined_df[i][s] # NoBar }

UnionIndex == UNION { SymbolTimestamps(s) : s \in Symbols }

EquityPointCount ==
    /\ pc = "loop" => Len(equity_list) = Len(price_df)
    /\ pc = "done" => Len(equity_df.equity) = Len(price_df)
    /\ p_pc = "bar" => Len(p_equity_list) = Cardinality(UnionIndex)
    /\ p_pc = "signals" => Len(p_equity_list) + 1 = Cardinality(UnionIndex)
    /\ p_pc = "done" => Len(p_equity_df.equity) = Cardinality(UnionIndex)

\* A step that changes an equity list appends one point to its end, and does
\* so for the one bar that the step's iteration is about.
EquityPointAppended ==
    /\ equity_list' # equity_list =>
          /\ Len(price_df') = Len(price_df) + 1
          /\ Len(equity_list') = Len(equity_list) + 1
          /\ SubSeq(equity_list', 1, Len(equity_list)) = equity_list
    /\ Len(price_df') # Len(price_df) => equity_list' # equity_list
    /\ p_equity_list' # p_equity_list =>
          /\ Len(p_equity_list') = Len(combined_df)
          /\ Len(p_equity_list') = Len(p_equity_list) + 1
          /\ SubSeq(p_equity_list', 1, Len(p_equity_list)) = p_equity_list

\* C12: each engine appends exactly one equity point per iterated bar, in bar
\* order: the equity trace of run_backtest is as long as the price frame,
\* stop-loss bars included, and the trace of run_portfolio_backtest has one
\* point per timestamp of the union of the symbols' timestamps.
C12_OneEquityPointPerBar == []EquityPointCount /\ [][EquityPointAppended]_vars

\* run_backtest has returned from a run with a stop-loss bar.
C12_Witness ==
    /\ pc = "done"
    /\ HasSide(trades_df, "SELL (SL)")
    /\ Len(equity_df.equity) = Len(price_df)
    /\ Len(price_df) > 1

\* An open position whose symbol has no close at the row.
HeldWithoutClose(row) ==
    \E i \in 1..Len(p_positions) : row[p_positions[i].symbol].close = NaN

\* C13: when an open position's symbol has no close at a timestamp of the
\* union index, the equity point recorded there is the defined number cash +
\* sum of amount * close over the other open positions: the position
\* without a close contributes 0.
C13_MissingCloseCountsZero ==
    (p_pc = "bar" /\ Len(combined_df) > 0 /\ HeldWithoutClose(Last(combined_df))) =>
        /\ Last(p_equity_list) # NaN
        /\ Last(p_equity_list) = RAdd(p_cash, CurrentPortfolioValue(p_positions,
                                                                     Last(combined_df)))

\* ---------------------------------------------------- claims, compute_metrics

\* C14: compute_metrics on a zero-length equity trace does not raise: it
\* returns a metrics map whose annualized_return is 0.
C14_EmptyTraceMetrics ==
    (metrics_pc # "idle" /\ Len(equity_df.equity) = 0) =>
        /\ metrics_pc = "returned"
        /\ metrics.annualized_return = Zero

\* ------------------------------------------------- claims, run_backtest (2)

\* C15: run_backtest on an empty price series returns normally, with a
\* zero-length equity trace and an empty trade log.
C15_EmptyPriceSeries ==
    /\ (pc = "loop" /\ price_df = << >>) => ENABLED Return
    /\ (pc = "done" /\ price_df = << >>) =>
          /\ equity_df.equity = << >>
          /\ equity_df.peak = << >>
          /\ equity_df.drawdown = << >>
          /\ trades_df = << >>

\* run_backtest has returned from a call with an empty price series.
C15_Witness == pc = "done" /\ price_df = << >> /\ signals = << >>

\* C16: run_backtest treats every signal value that is NaN or not one of
\* -1, 0, 1 as 0: its equity trace and trade log are those of the same run
\* with each such value replaced by 0.
C16_InvalidSignalsAreZero ==
    /\ equity_list = alt.run.equity_list
    /\ trades = alt.run.trades
    /\ pc = "done" =>
          /\ equity_df = BuildEquityDf(alt.run.equity_list)
          /\ trades_df = alt.run.trades

\* A returned run that traded and whose signal series held a NaN and a value
\* outside (-1, 0, 1), one of them while a position was open.
C16_Witness ==
    /\ pc = "done"
    /\ \E i, j \in 1..Len(signals) : signals[i] = NaNSignal /\ signals[j] = 2
    /\ \E i \in 1..Len(trades_df) :
          /\ trades_df[i].side = "BUY"
          /\ trades_df[i].timestamp < Len(signals)
          /\ signals[trades_df[i].timestamp + 1] \notin {-1, 0, 1}
    /\ HasSide(trades_df, "SELL")

\* The row the step takes has a timestamp that the signal series lacks.
TakesRowWithoutSignal == Len(price_df') > Len(price_df) /\ Len(signals') < Len(price_df')

\* Such a step raises, and neither trades nor records an equity point.
RaisesKeyError ==
    TakesRowWithoutSignal =>
        /\ pc' = "KeyError"
        /\ trades' = trades
        /\ equity_list' = equity_list
        /\ cash' = cash /\ position' = position /\ last_signal' = last_signal

\* C17: when the price series holds a timestamp absent from the index of the
\* signal series, the run fails with an error and returns no traces; it
\* neither substitutes a default signal nor applies another bar's signal.
C17_MissingSignalRaises ==
    /\ [](pc = "KeyError" => (equity_df = NoFrame /\ trades_df = << >>))
    /\ [][RaisesKeyError]_vars
    /\ [][pc = "KeyError" => pc' = "KeyError"]_vars

\* The run has raised at a later row, after it had traded on earlier rows.
C17_Witness ==
    /\ pc = "KeyError"
    /\ Len(price_df) = Len(signals) + 1
    /\ trades # << >>
    /\ position # Zero

\* ------------------------------------------------ claims, calculate_pnl (2)

RECURSIVE LotsAmount(_)
LotsAmount(buys) ==
    IF buys = << >> THEN 0 ELSE buys[1].amount + LotsAmount(Tail(buys))

RECURSIVE LotsCost(_)
LotsCost(buys) ==
    IF buys = << >> THEN 0 ELSE buys[1].amount * buys[1].price + LotsCost(Tail(buys))

LotsOf(pos, symbol) == IF symbol \in DOMAIN pos THEN pos[symbol].buys ELSE << >>

\* A sell starts with nothing realized and its own amount to match, whatever
\* an earlier sell left unmatched.
SellStartsAfresh ==
    (pnl_pc = "rows" /\ pnl_pc' = "while") =>
        /\ realized_pnl' = 0
        /\ sell_amount' = trade'.amount

\* An iteration of the matching loop realizes profit on the amount it takes
\* out of the symbol's lots, and on no more.
RealizesMatchedOnly ==
    (pnl_pc = "while" /\ pnl_pc' = "while") =>
        LET before  == positions[trade.symbol].buys
            after   == positions'[trade.symbol].buys
            matched == LotsAmount(before) - LotsAmount(after)
        IN  /\ matched > 0
            /\ sell_amount' = sell_amount - matched
            /\ sell_amount' >= 0
            /\ realized_pnl' = realized_pnl + matched * trade.price
                                 - (LotsCost(before) - LotsCost(after))

\* The loop is left with an unmatched excess: no lot of the symbol is left,
\* and the sell still gets its one record, with the profit realized so far.
OversoldSellCloses ==
    (pnl_pc = "while" /\ pnl_pc' # "while" /\ sell_amount > 0) =>
        /\ pnl_pc' = "rows"
        /\ positions[trade.symbol].buys = << >>
        /\ positions' = positions
        /\ closed_trades' = Append(closed_trades,
                                   [timestamp |-> trade.timestamp, symbol |-> trade.symbol,
                                    pnl |-> realized_pnl])

\* A buy enqueues its whole lot, also when an earlier sell left an excess.
BuyEnqueuesWholeLot ==
    (pnl_pc = "rows" /\ pnl_pc' = "rows" /\ trade_rows' # trade_rows) =>
        LET row == trade'
        IN  /\ row.side = "buy"
            /\ positions'[row.symbol].buys =
                   Append(LotsOf(positions, row.symbol),
                          [amount |-> row.amount, price |-> row.price])

\* C18: in calculate_pnl a sell whose amount exceeds the symbol's open lots
\* raises no error: it realizes pnl only on the matched amount, leaves the
\* symbol's lot queue empty, still emits exactly one record, and its
\* unmatched excess is not carried forward to a later buy's lot.
C18_OversoldSell ==
    /\ [][SellStartsAfresh]_vars
    /\ [][RealizesMatchedOnly]_vars
    /\ [][OversoldSellCloses]_vars
    /\ [][BuyEnqueuesWholeLot]_vars
    /\ [](pnl_pc \in {"idle", "rows", "while", "done"})

\* A buy has followed a sell of the same symbol that exceeded the lots and
\* matched some: the new lot is whole and alone in the queue.
C18_Witness ==
    /\ pnl_pc = "rows"
    /\ trade.side = "buy"
    /\ sell_amount > 0
    /\ closed_trades # << >>
    /\ Last(closed_trades).symbol = trade.symbol
    /\ Last(closed_trades).timestamp = trade.timestamp - 1
    /\ Last(closed_trades).pnl # 0
    /\ positions[trade.symbol].buys = << [amount |-> trade.amount, price |-> trade.price] >>

\* --------------------------------------- claims, run_portfolio_backtest (2)

TradedAt(idx, symbol, side) ==
    \E i \in 1..Len(p_trades) :
        /\ p_trades[i].timestamp = idx
        /\ p_trades[i].symbol = symbol
        /\ p_trades[i].side = side

\* At the end of timestamp idx: symbol y was exited on its signal, symbol x
\* was not held, had signal 1 and an open price, and no entry was made, so
\* that the cash is the cash after all the exits of the timestamp.
EntryLeftOut(x, y, idx) ==
    /\ x # y
    /\ TradedAt(idx, y, "SELL")
    /\ signal_data[idx][x] = 1
    /\ NotNa(combined_df[idx][x].open)
    /\ ~Holds(p_positions, x)
    /\ ~TradedAt(idx, x, "SELL")
    /\ \A z \in Symbols : ~TradedAt(idx, z, "BUY")

\* C19: at each timestamp all signal exits are applied, and their proceeds
\* credited, before any entry is evaluated: an entry that the cash after
\* the exits can pay for is executed, whatever the order of the symbols in
\* price_data.
C19_ExitsBeforeEntries ==
    (p_pc = "bar" /\ Len(combined_df) > 0) =>
        \A x, y \in Symbols :
            EntryLeftOut(x, y, Len(combined_df)) =>
                ~RLe(CapitalToAllocate(total_equity, allocation), p_cash)

\* The net proceeds of the stop-loss exits that ts records at timestamp idx.
RECURSIVE StopProceedsAt(_, _)
StopProceedsAt(ts, idx) ==
    IF ts = << >> THEN Zero
    ELSE LET t == Head(ts)
         IN  IF t.timestamp = idx /\ t.side = "SELL (SL)"
             THEN RAdd(RSub(RMul(t.amount, t.price), t.commission),
                       StopProceedsAt(Tail(ts), idx))
             ELSE StopProceedsAt(Tail(ts), idx)

\* Within a timestamp the stop-loss exits come first in the trade log.
StopExitsComeFirst ==
    \A i, j \in 1..Len(p_trades) :
        (i < j /\ p_trades[i].timestamp = p_trades[j].timestamp
               /\ p_trades[j].side = "SELL (SL)") => p_trades[i].side = "SELL (SL)"

\* When the signal loop starts, no position is left whose stop the row's low
\* has reached.
NoStopPending ==
    (p_pc = "signals" /\ p_key = 1) =>
        \A i \in 1..Len(p_positions) :
            LET low == Last(combined_df)[p_positions[i].symbol].low
            IN  ~(low # NaN /\ RLe(low, RMul(p_positions[i].entry_price,
                                             RSub(One, p_stop_loss))))

\* The step that takes a row credits the proceeds of the row's stop-loss
\* exits to the cash before the signal loop starts.
StopProceedsCredited ==
    (p_pc = "bar" /\ p_pc' = "signals") =>
        p_cash' = RAdd(p_cash, StopProceedsAt(p_trades', Len(combined_df')))

\* An iteration of the signal loop for a symbol, at a timestamp where another
\* symbol was stopped out: the symbol's own signal exit or entry takes place,
\* the entry being checked against the cash that holds the stop proceeds.
OtherSymbolUnaffected ==
    (p_pc = "signals" /\ p_key' = p_key + 1) =>
        LET idx    == Len(combined_df)
            b      == PriceDataKeys[p_key]
            signal == signal_data[idx][b]
            open   == combined_df[idx][b].open
            capital == RMul(total_equity, allocation)
            new    == p_trades'[Len(p_trades')]
        IN  (\E a \in Symbols : a # b /\ TradedAt(idx, a, "SELL (SL)")) =>
                /\ (Holds(p_positions, b) /\ signal <= 0 /\ open # NaN) =>
                      /\ Len(p_trades') = Len(p_trades) + 1
                      /\ new.side = "SELL" /\ new.symbol = b /\ new.timestamp = idx
                      /\ ~Holds(p_positions', b)
                /\ (~Holds(p_positions, b) /\ signal = 1 /\ open # NaN
                        /\ RLe(capital, p_cash)) =>
                      /\ Len(p_trades') = Len(p_trades) + 1
                      /\ new.side = "BUY" /\ new.symbol = b /\ new.timestamp = idx
                      /\ Holds(p_positions', b)
                      /\ p_cash' = RSub(p_cash, capital)

\* C20: in run_portfolio_backtest the stop-loss pass over all open positions
\* runs before any signal exit or entry of the timestamp; a stop-loss exit
\* of one symbol never prevents the signal SELL or BUY of another symbol at
\* that timestamp, and the cash it credits is available to the entries of
\* the same timestamp.
C20_StopPassFirst ==
    /\ [](StopExitsComeFirst /\ NoStopPending)
    /\ [][StopProceedsCredited]_vars
    /\ [][OtherSymbolUnaffected]_vars

\* A timestamp at which one symbol was stopped out and another was entered
\* with cash that only the stop proceeds made sufficient.
C20_Witness ==
    /\ p_pc = "bar"
    /\ Len(combined_df) > 0
    /\ LET idx == Len(combined_df)
       IN  /\ \E a, b \in Symbols :
                 /\ a # b
                 /\ TradedAt(idx, a, "SELL (SL)")
                 /\ TradedAt(idx, b, "BUY")
                 /\ ~TradedAt(idx, a, "BUY")
           /\ \A z \in Symbols : ~TradedAt(idx, z, "SELL")
           /\ RLt(p_cash, StopProceedsAt(p_trades, idx))

\* --------------------------------------- claims, run_portfolio_backtest (3)

\* The open positions marked at the closes of a row; a position whose symbol
\* has no close there is left out.
RECURSIVE MarkedAtCloses(_, _)
MarkedAtCloses(ps, row) ==
    IF ps = << >> THEN Zero
    ELSE LET close == row[Head(ps).symbol].close
             rest  == MarkedAtCloses(Tail(ps), row)
         IN  IF close = NaN THEN rest ELSE RAdd(RMul(Head(ps).amount, close), rest)

\* What a BUY record commits: the price of the amount bought plus the commission.
Committed(t) == RAdd(RMul(t.price, t.amount), t.commission)

\* The step that takes a row sets total_equity to the cash plus the open
\* positions at the row's closes, both as they are when the bar starts.
EquityAtBarStart ==
    (p_pc = "bar" /\ p_pc' = "signals") =>
        total_equity' = RAdd(p_cash, MarkedAtCloses(p_positions, Last(combined_df')))

\* A step of the signal loop that records a BUY.
BuySizing ==
    (p_pc = "signals" /\ p_trades' # p_trades /\ Last(p_trades').side = "BUY") =>
        LET new     == Last(p_trades')
            idx     == Len(combined_df)
            capital == RMul(total_equity, allocation)
        IN  /\ p_trades' = Append(p_trades, new)
            /\ new.timestamp = idx
            /\ new.price = combined_df[idx][new.symbol].open
            /\ RLe(capital, p_cash)
            /\ p_cash' = RSub(p_cash, capital)
            /\ new.commission = RMul(capital, p_commission_rate)
            /\ new.amount = RDiv(RSub(capital, new.commission), new.price)
            /\ Committed(new) = capital

\* The BUY records of the first timestamp commit initial_cash * allocation,
\* those of the latest timestamp total_equity * allocation.
CommitsShareOfEquity ==
    \A i \in 1..Len(p_trades) :
        p_trades[i].side = "BUY" =>
            /\ p_trades[i].timestamp = 1 =>
                  Committed(p_trades[i]) = RMul(I(p_initial_cash), allocation)
            /\ p_trades[i].timestamp = Len(combined_df) =>
                  Committed(p_trades[i]) = RMul(total_equity, allocation)

\* C21: every BUY of run_portfolio_backtest at timestamp t commits capital =
\* total_equity_t * allocation, total_equity_t being cash plus the open
\* positions at t's closes as computed at the start of the bar; it happens
\* only if cash >= capital, cash decreases by exactly capital, commission =
\* capital * commission_rate, amount = (capital - commission) / open, so
\* price * amount + commission = capital, and a later entry at a higher
\* total equity commits proportionally more.
C21_EquityProportionalSizing ==
    /\ [][EquityAtBarStart]_vars
    /\ [][BuySizing]_vars
    /\ []CommitsShareOfEquity

\* A second entry, at a later timestamp where the total equity has grown,
\* commits more capital than the first one did.
C21_Witness ==
    \E i, j \in 1..Len(p_trades) :
        /\ p_trades[i].side = "BUY" /\ p_trades[j].side = "BUY"
        /\ p_trades[i].timestamp = 1
        /\ p_trades[j].timestamp = Len(combined_df)
        /\ Len(combined_df) > 1
        /\ RLt(I(p_initial_cash), total_equity)
        /\ RLt(Committed(p_trades[i]), Committed(p_trades[j]))
        /\ p_commission_rate # Zero

\* ------------------------------------------------- claims, run_backtest (3)

\* The signal of bar idx as the loop reads it from the cleaned series.
BarSignal(sigs, idx) == IF sigs[idx] \in {-1, 0, 1} THEN sigs[idx] ELSE 0

\* The locals of the run, as a record.
RunLocals ==
    [cash |-> cash, position |-> position, entry_price |-> entry_price,
     last_signal |-> last_signal, equity_list |-> equity_list, trades |-> trades]

\* A step that takes a bar and records a BUY or a SELL: the record carries
\* the bar's timestamp and open, and the bar's signal and the stored previous
\* signal are those of an entry or of an exit.
SignalTradeAtOpen ==
    (Len(price_df') > Len(price_df) /\ trades' # trades) =>
        LET new    == Last(trades')
            idx    == Len(price_df')
            row    == price_df'[idx]
            signal == BarSignal(signals', idx)
        IN  /\ trades' = Append(trades, new)
            /\ new.timestamp = idx
            /\ new.side = "BUY" =>
                  /\ row.open > 0
                  /\ new.price = I(row.open)
                  /\ signal = 1
                  /\ last_signal <= 0
            /\ new.side = "SELL" =>
                  /\ row.open > 0
                  /\ new.price = I(row.open)
                  /\ signal <= 0
                  /\ last_signal = 1

\* The bar's close has no part in the step but in the equity point: with the
\* close missing, or equal to the bar's low, the cash, position, entry price,
\* stored signal and trades after the bar are the same.
CloseOnlyMarksEquity ==
    Len(price_df') > Len(price_df) =>
        LET idx == Len(price_df')
            row == price_df'[idx]
        IN  /\ \A close \in {Missing, row.low} :
                  [LoopBody(RunLocals, idx, [row EXCEPT !.close = close],
                            signals'[idx], commission_rate, stop_loss)
                      EXCEPT !.equity_list = << >>]
                  = [cash |-> cash', position |-> position', entry_price |-> entry_price',
                     last_signal |-> last_signal', equity_list |-> << >>,
                     trades |-> trades']
            /\ (trades' = trades \/ Last(trades').side # "SELL (SL)") =>
                  Last(equity_list') =
                      RAdd(cash', RMul(position', IF row.close > 0 THEN I(row.close) ELSE Zero))

\* C22: every signal-driven trade of run_backtest is priced at the open of
\* the bar at whose timestamp it is recorded and is triggered by that bar's
\* signal: a BUY only when the bar's signal is +1 and the stored previous
\* signal is <= 0, a SELL only when the bar's signal is <= 0 and the stored
\* previous signal is 1; the close is used only to mark equity to market.
C22_TradesAtSignalBarOpen ==
    /\ [][SignalTradeAtOpen]_vars
    /\ [][CloseOnlyMarksEquity]_vars

\* A run that bought at one bar's open and sold at a later bar's open.
C22_Witness ==
    \E i, j \in 1..Len(trades) :
        /\ i < j
        /\ trades[i].side = "BUY" /\ trades[i].price = I(price_df[trades[i].timestamp].open)
        /\ trades[j].side = "SELL" /\ trades[j].price = I(price_df[trades[j].timestamp].open)
        /\ trades[j].price # I(price_df[trades[j].timestamp].close)

\* The step takes a bar whose open is missing or not positive.
TakesBarWithoutOpen ==
    Len(price_df') > Len(price_df) /\ price_df'[Len(price_df')].open <= 0

\* The stop of the open position is reached by the low of the bar the step
\* takes, a missing low counting as 0.
StopReached ==
    LET low == price_df'[Len(price_df')].low
    IN  /\ RGt(position, Zero) /\ RGt(stop_loss, Zero) /\ entry_price # None
        /\ RLe(IF low > 0 THEN I(low) ELSE Zero, RMul(entry_price, RSub(One, stop_loss)))

\* What the claim says of such a bar apart from the stored signal.
BarWithoutOpenSkipsSignals ==
    /\ Len(equity_list') = Len(equity_list) + 1
    /\ StopReached =>
          /\ Len(trades') = Len(trades) + 1
          /\ Last(trades').side = "SELL (SL)"
          /\ position' = Zero
    /\ ~StopReached =>
          /\ trades' = trades
          /\ cash' = cash
          /\ position' = position

StoppedOnLastBar ==
    /\ pc = "loop"
    /\ trades # << >>
    /\ Last(trades).side = "SELL (SL)"
    /\ Last(trades).timestamp = Len(price_df)

\* A stop-loss exit at bar t is followed by a BUY at bar t + 1 whenever that
\* bar has signal 1 and a positive open.
ReentersAfterStop ==
    \A i \in 1..Len(trades) :
        LET t == trades[i].timestamp
        IN  (/\ trades[i].side = "SELL (SL)"
             /\ t < Len(price_df)
             /\ BarSignal(signals, t + 1) = 1
             /\ price_df[t + 1].open > 0) =>
                \E j \in 1..Len(trades) :
                    /\ j = i + 1
                    /\ trades[j].side = "BUY"
                    /\ trades[j].timestamp = t + 1

\* C24: after a stop-loss exit on bar t run_backtest stores the previous
\* signal 0, not bar t's signal, and records bar t's equity as exactly the
\* cash after the exit; so if bar t+1 has signal +1 and an open > 0 a new BUY
\* is recorded on bar t+1, even when the signal was +1 on every bar since the
\* original entry.
C24_StopResetsSignal ==
    /\ StoppedOnLastBar =>
          /\ last_signal = 0
          /\ position = Zero
          /\ Last(equity_list) = cash
    /\ ReentersAfterStop

\* Signal +1 on every bar: bought, stopped out, bought again on the next bar.
C24_Witness ==
    /\ Len(trades) > 2
    /\ \A k \in 1..Len(signals) : signals[k] = 1
    /\ \E i \in 1..Len(trades) :
          /\ i + 2 <= Len(trades)
          /\ trades[i].side = "BUY"
          /\ trades[i + 1].side = "SELL (SL)"
          /\ trades[i + 2].side = "BUY"
          /\ trades[i + 2].timestamp = trades[i + 1].timestamp + 1

\* --------------------------------------- claims, run_portfolio_backtest (4)

\* The position of a symbol, as a sequence of zero or one entries.
PositionsOf(ps, symbol) == SelectSeq(ps, LAMBDA p : p.symbol = symbol)

\* No trade record is at a timestamp where its symbol has no bar.
NoTradeWithoutBar ==
    \A i \in 1..Len(p_trades) :
        combined_df[p_trades[i].timestamp][p_trades[i].symbol] # NoBar

\* A step inside a timestamp leaves the position of every symbol without a
\* bar there as it was, and the iteration of the signal loop for such a
\* symbol changes neither the cash nor the trade log.
SymbolWithoutBarSkipped ==
    (p_pc' = "signals" /\ combined_df' # << >>) =>
        \A b \in Symbols :
            Last(combined_df')[b] = NoBar =>
                /\ PositionsOf(p_positions', b) = PositionsOf(p_positions, b)
                /\ (p_pc = "signals" /\ PriceDataKeys[p_key] = b) =>
                      /\ p_cash' = p_cash
                      /\ p_trades' = p_trades
                      /\ p_positions' = p_positions

\* C25: if a symbol has no price data at a timestamp of the union index,
\* run_portfolio_backtest records no trade for it at that timestamp and
\* leaves its position and the cash unchanged on its account, without an
\* error, whatever the symbol's signal at that timestamp.
C25_SymbolWithoutBar == []NoTradeWithoutBar /\ [][SymbolWithoutBarSkipped]_vars

\* A timestamp is over at which a held symbol had no bar and an exit signal,
\* and another symbol without a bar at an earlier timestamp had the entry
\* signal there.
C25_Witness ==
    /\ p_pc = "bar"
    /\ Len(combined_df) > 1
    /\ \E b \in Symbols :
          /\ Last(combined_df)[b] = NoBar
          /\ Last(signal_data)[b] = 0
          /\ Holds(p_positions, b)
    /\ \E a \in Symbols :
          /\ combined_df[1][a] = NoBar
          /\ signal_data[1][a] = 1

\* The trade records of one symbol, in log order.
TradesOf(ts, symbol) == SelectSeq(ts, LAMBDA t : t.symbol = symbol)

\* BUY at the odd places, SELL or SELL (SL) at the even places.
AlternatesFromBuy(ts) ==
    \A i \in 1..Len(ts) :
        IF i % 2 = 1 THEN ts[i].side = "BUY"
        ELSE ts[i].side \in {"SELL", "SELL (SL)"}

\* C26: in run_portfolio_backtest each symbol has at most one open position
\* at any time, and the sub-sequence of trade records of each symbol
\* alternates BUY, then SELL or SELL (SL), starting with BUY; the symbol is
\* held exactly when the last of its records is a BUY.
C26_OnePositionPerSymbol ==
    \A b \in Symbols :
        /\ Len(PositionsOf(p_positions, b)) <= 1
        /\ AlternatesFromBuy(TradesOf(p_trades, b))
        /\ Len(PositionsOf(p_positions, b)) = Len(TradesOf(p_trades, b)) % 2

\* One symbol was bought, sold and bought again while the other one was
\* bought in between.
C26_Witness ==
    \E a, b \in Symbols :
        /\ a # b
        /\ Len(TradesOf(p_trades, a)) = 3
        /\ Len(TradesOf(p_trades, b)) >= 1
        /\ \E i, j, k \in 1..Len(p_trades) :
              /\ i < j /\ j < k
              /\ p_trades[i].symbol = a /\ p_trades[j].symbol = b
              /\ p_trades[k].symbol = a

\* ------------------------------- claims, run_portfolio_backtest, raw signals

\* The iteration of the signal loop that the step takes reads a signal
\* outside {-1, 0, 1}.
ReadsInvalidSignal ==
    /\ p_pc = "signals"
    /\ p_key <= Len(PriceDataKeys)
    /\ p_key' = p_key + 1
    /\ signal_data[Len(combined_df)][PriceDataKeys[p_key]] \notin {-1, 0, 1}

\* What the iteration leaves when the symbol's signal is replaced by 0.
AsWithZero ==
    ForSymbol([cash |-> p_cash, positions |-> p_positions, trades |-> p_trades],
              PriceDataKeys[p_key], Len(combined_df), combined_df[Len(combined_df)], 0,
              total_equity, allocation, p_commission_rate)

\* C27: run_portfolio_backtest treats a signal outside {-1, 0, 1} as 0: the
\* iteration of the signal loop that reads such a signal leaves the cash,
\* the positions and the trade log that the same iteration leaves with the
\* signal replaced by 0, so that a held symbol is sold at the open.
C27_InvalidSignalActsAsZero ==
    [][ReadsInvalidSignal =>
           /\ p_cash' = AsWithZero.cash
           /\ p_positions' = AsWithZero.positions
           /\ p_trades' = AsWithZero.trades]_vars

\* --------------------------------------------------------- claims, report

\* The number of pairs the report makes of the trade log.
NumPairs == Len(trades_df) \div 2

\* The P&L of the pair (entry, exit).
RoundTripPnl(entry, exit) ==
    RSub(RSub(RMul(exit.price, exit.amount), exit.commission),
         RAdd(RMul(entry.price, entry.amount), entry.commission))

\* C28: the trade statistics of the report pair the trade records as
\* disjoint consecutive (entry, exit) pairs in log order, with P&L =
\* (exit.price * exit.amount - exit.commission) - (entry.price *
\* entry.amount + entry.commission), num_trades = the number of pairs and
\* win_rate = the share of pairs with P&L > 0, a last record without a
\* partner left out; and in every trade log of run_backtest each pair is a
\* BUY followed by the SELL or SELL (SL) that closed that position.
C28_PairsAreRoundTrips ==
    report_pc = "shown" =>
        /\ Len(pnls) = NumPairs
        /\ extra.num_trades = NumPairs
        /\ \A k \in 1..NumPairs :
              pnls[k] = RoundTripPnl(trades_df[2 * k - 1], trades_df[2 * k])
        /\ NumPairs > 0 =>
              extra.win_rate =
                  RDiv(I(Cardinality({k \in 1..NumPairs : RGt(pnls[k], Zero)})),
                       I(NumPairs))
        /\ \A k \in 1..NumPairs :
              /\ trades_df[2 * k - 1].side = "BUY"
              /\ trades_df[2 * k].side \in {"SELL", "SELL (SL)"}
              /\ trades_df[2 * k].amount = trades_df[2 * k - 1].amount

\* ------------------------------------------------ claims, calculate_pnl (2)

\* The fills of one symbol, in row order.
RowsOf(rows, symbol) == SelectSeq(rows, LAMBDA r : r.symbol = symbol)

\* The matching loop run to its end on one list of lots.
RECURSIVE Drain(_, _, _, _)
Drain(buys, s_amount, s_price, pnl) ==
    IF s_amount > 0 /\ buys # << >>
    THEN LET r == WhileBody(buys, s_amount, s_price, pnl)
         IN  Drain(r.buys, r.sell_amount, s_price, r.realized_pnl)
    ELSE [buys |-> buys, pnl |-> pnl]

\* The open lots and the P&L of the sells of a ledger fed with the fills of
\* a single symbol.
RECURSIVE OwnLedger(_)
OwnLedger(rows) ==
    IF rows = << >> THEN [buys |-> << >>, pnls |-> << >>]
    ELSE LET n    == Len(rows)
             prev == OwnLedger(SubSeq(rows, 1, n - 1))
             row  == rows[n]
         IN  IF row.side = "buy"
             THEN [prev EXCEPT !.buys = Append(@, [amount |-> row.amount,
                                                   price |-> row.price])]
             ELSE LET d == Drain(prev.buys, row.amount, row.price, 0)
                  IN  [buys |-> d.buys, pnls |-> Append(prev.pnls, d.pnl)]

\* The P&L of the closed sells of one symbol, in order.
ClosedPnlsOf(closed, symbol) ==
    LET own == SelectSeq(closed, LAMBDA c : c.symbol = symbol)
    IN  [k \in 1..Len(own) |-> own[k].pnl]

\* The sell of the symbol is inside its matching loop.
MidSell(symbol) == pnl_pc = "while" /\ trade.symbol = symbol

\* C29: calculate_pnl keeps an independent lot queue per symbol: the open
\* lots of a symbol and the pnl of each of its sells are those of a ledger
\* fed with the fills of that symbol alone, so that a fill of one symbol
\* never changes the open lots of another.
C29_IndependentLotQueues ==
    \A b \in Symbols :
        ~MidSell(b) =>
            LET own == RowsOf(trade_rows, b)
                L   == OwnLedger(own)
            IN  /\ IF b \in DOMAIN positions
                   THEN positions[b].buys = L.buys
                   ELSE own = << >>
                /\ ClosedPnlsOf(closed_trades, b) = L.pnls

\* A sell of one symbol was closed at a profit or loss against its own lot
\* while a lot of the other symbol, bought in between, stays open.
C29_Witness ==
    /\ pnl_pc = "rows"
    /\ Len(trade_rows) = 3
    /\ trade_rows[1].side = "buy" /\ trade_rows[2].side = "buy"
    /\ trade_rows[3].side = "sell"
    /\ trade_rows[1].symbol = trade_rows[3].symbol
    /\ trade_rows[2].symbol # trade_rows[1].symbol
    /\ trade_rows[2].price # trade_rows[1].price
    /\ Len(closed_trades) = 1
    /\ closed_trades[1].pnl # 0
    /\ positions[trade_rows[2].symbol].buys # << >>

\* ---------------------------------------------- claims, run_backtest (3)

\* Every bar taken so far has a positive open, and the parameters are in
\* their ranges.
OpensPositive ==
    /\ \A i \in 1..Len(price_df) : price_df[i].open > 0
    /\ initial_cash > 0
    /\ RLt(commission_rate, One)
    /\ stop_loss = None \/ RLt(stop_loss, One)

\* C30: when every bar's open is > 0, initial_cash > 0, commission_rate < 1
\* and stop_loss < 1, after each bar of run_backtest position > 0 exactly
\* when the stored previous signal is 1, and no BUY follows a BUY: an entry
\* never overwrites an open position.
C30_PositionTracksSignal ==
    OpensPositive =>
        /\ RGt(position, Zero) <=> last_signal = 1
        /\ \A i \in 2..Len(trades) :
              trades[i].side = "BUY" => trades[i - 1].side # "BUY"

\* Three bars with positive opens: an entry, an exit and a second entry,
\* whose position is open.
C30_Witness ==
    /\ OpensPositive
    /\ Len(price_df) = 3
    /\ Len(trades) = 3
    /\ trades[3].side = "BUY"
    /\ RGt(position, Zero)
    /\ last_signal = 1

\* --------------------------------------- claims, run_portfolio_backtest (5)

\* The step takes a new row of combined_df.
TakesRow == p_pc = "bar" /\ p_pc' = "signals"

\* The position is closed by a SELL (SL) at its entry price among the
\* records the step appends.
StoppedAtEntryPrice(pos) ==
    /\ ~Holds(p_positions', pos.symbol)
    /\ \E i \in (Len(p_trades) + 1)..Len(p_trades') :
          p_trades'[i] = PortfolioTrade(Len(combined_df'), pos.symbol, "SELL (SL)",
                                       pos.entry_price, pos.amount,
                                       RMul(RMul(pos.amount, pos.entry_price),
                                            p_commission_rate))

\* With stop_loss = 0 the row's stop-loss pass exits every open position
\* whose low is at or below its entry price.
ZeroStopLossStillStops ==
    (TakesRow /\ p_stop_loss = Zero) =>
        \A i \in 1..Len(p_positions) :
            LET pos == p_positions[i]
                low == Last(combined_df')[pos.symbol].low
            IN  (low # NaN /\ RLe(low, pos.entry_price)) => StoppedAtEntryPrice(pos)

\* C31: in run_portfolio_backtest the stop-loss pass is not disabled by
\* stop_loss = 0: every open position whose bar low is <= its entry price is
\* force-exited at exactly its entry price and recorded as "SELL (SL)";
\* run_backtest, which guards on stop_loss > 0, records no "SELL (SL)" then.
C31_ZeroStopLoss ==
    /\ [][ZeroStopLossStillStops]_vars
    /\ [](stop_loss = Zero => \A i \in 1..Len(trades) : trades[i].side # "SELL (SL)")

\* With stop_loss = 0 a position was stopped out at the price it was bought
\* at.
C31_Witness ==
    /\ p_stop_loss = Zero
    /\ Len(p_trades) = 2
    /\ p_trades[1].side = "BUY"
    /\ p_trades[2].side = "SELL (SL)"
    /\ p_trades[2].symbol = p_trades[1].symbol
    /\ p_trades[2].price = p_trades[1].price
    /\ p_trades[2].timestamp = p_trades[1].timestamp + 1

\* The symbol has a SELL (SL) record at the timestamp.
StoppedOutAt(ts, symbol, idx) ==
    \E i \in 1..Len(ts) :
        /\ ts[i].symbol = symbol
        /\ ts[i].timestamp = idx
        /\ ts[i].side = "SELL (SL)"

\* The iteration of the signal loop for a symbol stopped out in this row,
\* with signal +1, an open price and enough cash, appends the symbol's BUY.
ReentersInSameBar ==
    LET idx    == Len(combined_df)
        symbol == PriceDataKeys[p_key]
        open   == combined_df[idx][symbol].open
    IN  (/\ p_pc = "signals"
         /\ p_key <= Len(PriceDataKeys)
         /\ p_key' = p_key + 1
         /\ StoppedOutAt(p_trades, symbol, idx)
         /\ signal_data[idx][symbol] = 1
         /\ open # NaN
         /\ RLe(RMul(total_equity, allocation), p_cash)) =>
            /\ Len(p_trades') = Len(p_trades) + 1
            /\ Last(p_trades').symbol = symbol
            /\ Last(p_trades').timestamp = idx
            /\ Last(p_trades').side = "BUY"
            /\ Last(p_trades').price = open

\* In run_backtest a SELL (SL) is the only record of its bar.
StopLossBarHasOneTrade ==
    \A i, j \in 1..Len(trades) :
        (i # j /\ trades[i].side = "SELL (SL)") =>
            trades[j].timestamp # trades[i].timestamp

\* C32: in run_portfolio_backtest a symbol stopped out at timestamp t is
\* eligible for entry in the same bar: if its signal at t is +1, its open is
\* available and cash >= capital_to_allocate, the log holds a "SELL (SL)"
\* followed by a "BUY" of that symbol, both at t; in run_backtest a
\* stop-loss suppresses every other trade of its bar.
C32_ReentryInStopBar == [][ReentersInSameBar]_vars /\ []StopLossBarHasOneTrade

\* A symbol was stopped out and bought again at the same timestamp.
C32_Witness ==
    \E i, j \in 1..Len(p_trades) :
        /\ i < j
        /\ p_trades[i].side = "SELL (SL)"
        /\ p_trades[j].side = "BUY"
        /\ p_trades[j].symbol = p_trades[i].symbol
        /\ p_trades[j].timestamp = p_trades[i].timestamp

\* ------------------------------------------------- claims, both engines (2)

\* In run_backtest every SELL (SL) is at a later bar than every BUY before
\* it in the log.
StopAfterEntryBar ==
    \A i, j \in 1..Len(trades) :
        (i < j /\ trades[i].side = "BUY" /\ trades[j].side = "SELL (SL)") =>
            trades[i].timestamp < trades[j].timestamp

\* The same for the records of one symbol in run_portfolio_backtest.
PortfolioStopAfterEntryBar ==
    \A i, j \in 1..Len(p_trades) :
        (/\ i < j
         /\ p_trades[i].symbol = p_trades[j].symbol
         /\ p_trades[i].side = "BUY"
         /\ p_trades[j].side = "SELL (SL)") =>
            p_trades[i].timestamp < p_trades[j].timestamp

\* C33: neither engine evaluates the stop-loss on the bar in which a
\* position is opened: a position bought at bar t is never stopped out at
\* bar t, even if the low of bar t is at or below entry_price * (1 -
\* stop_loss); its earliest "SELL (SL)" is at bar t + 1.
C33_NoStopOnEntryBar == StopAfterEntryBar /\ PortfolioStopAfterEntryBar

\* A position bought on a bar whose low was already at or below its stop
\* price was taken through that bar and stopped out on the next one.
C33_EngineWitness ==
    /\ Len(trades) = 2
    /\ trades[1].side = "BUY"
    /\ trades[2].side = "SELL (SL)"
    /\ trades[2].timestamp = trades[1].timestamp + 1
    /\ RLe(PriceOf(price_df[trades[1].timestamp].low),
           StopPrice(trades[1].price, stop_loss))

C33_PortfolioWitness ==
    /\ Len(p_trades) = 2
    /\ p_trades[1].side = "BUY"
    /\ p_trades[2].side = "SELL (SL)"
    /\ p_trades[2].symbol = p_trades[1].symbol
    /\ p_trades[2].timestamp = p_trades[1].timestamp + 1
    /\ RLe(combined_df[p_trades[1].timestamp][p_trades[1].symbol].low,
           PortfolioStopPrice(p_trades[1].price, p_stop_loss))

C33_Witness == C33_EngineWitness \/ C33_PortfolioWitness

\* --------------------------------------- claims, run_portfolio_backtest (6)

\* What one trade record adds to the cash.
CashEffect(t) ==
    IF t.side = "BUY"
    THEN RNeg(RAdd(RMul(t.price, t.amount), t.commission))
    ELSE RSub(RMul(t.price, t.amount), t.commission)

RECURSIVE SumCashEffects(_)
SumCashEffects(ts) ==
    IF ts = << >> THEN Zero
    ELSE RAdd(SumCashEffects(SubSeq(ts, 1, Len(ts) - 1)), CashEffect(ts[Len(ts)]))

\* C34: in run_portfolio_backtest, at every equity point and between them,
\* cash = initial_cash - the sum over the BUY records so far of (price *
\* amount + commission) + the sum over the SELL and SELL (SL) records so far
\* of (price * amount - commission).
C34_CashLedger ==
    p_pc # "idle" => p_cash = RAdd(I(p_initial_cash), SumCashEffects(p_trades))

\* An equity point after an entry, a signal exit and a stop-loss exit, all
\* with commission.
C34_Witness ==
    /\ p_pc = "bar"
    /\ Len(p_equity_list) = Len(combined_df)
    /\ p_commission_rate # Zero
    /\ \E i, j, k \in 1..Len(p_trades) :
          /\ p_trades[i].side = "BUY"
          /\ p_trades[j].side = "SELL"
          /\ p_trades[k].side = "SELL (SL)"

\* Only the step that takes a row assigns total_equity.
EquityComputedOncePerRow == ~TakesRow => total_equity' = total_equity

\* The BUY records of one timestamp commit the same capital.
SameBarSameCapital ==
    \A i, j \in 1..Len(p_trades) :
        (/\ p_trades[i].side = "BUY"
         /\ p_trades[j].side = "BUY"
         /\ p_trades[i].timestamp = p_trades[j].timestamp) =>
            Committed(p_trades[i]) = Committed(p_trades[j])

\* C35: in run_portfolio_backtest total_equity is computed once per
\* timestamp, before any trade of that timestamp, and is not refreshed after
\* the stop-loss exits, signal exits or entries of the same timestamp; all
\* BUY records of one timestamp commit the identical capital_to_allocate.
C35_OneEquityPerTimestamp ==
    [][EquityComputedOncePerRow]_vars /\ []SameBarSameCapital

\* Two symbols were bought at one timestamp after a stop-loss exit of that
\* timestamp had changed the cash.
C35_Witness ==
    \E i, j, k \in 1..Len(p_trades) :
        /\ i < j /\ j < k
        /\ p_trades[i].side = "SELL (SL)"
        /\ p_trades[j].side = "BUY"
        /\ p_trades[k].side = "BUY"
        /\ p_trades[j].timestamp = p_trades[i].timestamp
        /\ p_trades[k].timestamp = p_trades[i].timestamp
        /\ p_trades[j].symbol # p_trades[k].symbol

\* ---------------------------------------------- claims, run_backtest (4)

\* A step that records a trade: a BUY commits the cash held before it, an
\* exit leaves its net proceeds as the cash.
RoundTripCash ==
    (pc = "loop" /\ trades' # trades) =>
        LET new == Last(trades')
        IN  /\ trades' = Append(trades, new)
            /\ IF new.side = "BUY"
               THEN RAdd(RMul(new.price, new.amount), new.commission) = cash
               ELSE RSub(RMul(new.price, new.amount), new.commission) = cash'

RECURSIVE SumPnls(_)
SumPnls(ps) == IF ps = << >> THEN Zero ELSE RAdd(ps[1].pnl, SumPnls(Tail(ps)))

\* With no position open the cash is initial_cash plus the P&L of the pairs
\* the report makes of the log.
FlatCashIsSumOfPnls ==
    position = Zero =>
        cash = RAdd(I(initial_cash), SumPnls(PairPnls(trades, 1)))

\* C36: for every round trip of run_backtest the BUY's price * amount +
\* commission equals the cash held immediately before the entry and the
\* exit's price * amount - commission equals the cash held immediately
\* after the exit; whenever the engine is flat, cash = initial_cash + the
\* sum of the P&Ls of the report's (entry, exit) pairs.
C36_RoundTripLedger == [][RoundTripCash]_vars /\ []FlatCashIsSumOfPnls

\* Flat after a round trip with commission that the stop-loss closed at a
\* loss.
C36_Witness ==
    /\ position = Zero
    /\ commission_rate # Zero
    /\ Len(trades) = 2
    /\ trades[1].side = "BUY"
    /\ trades[2].side = "SELL (SL)"
    /\ RLt(cash, I(initial_cash))
    /\ cash = RSub(RMul(trades[2].price, trades[2].amount), trades[2].commission)

\* ------------------------------------------ claims, StrategyBot.run_check

\* The step is one iteration of the signal loop.
AnalyzesSymbol == bot_pc = "check" /\ stop_keys = << >> /\ sym_i' = sym_i + 1

\* An iteration that observes the recorded candle of its symbol as the last
\* closed candle sends no order.
RecordedCandleNotActedOn ==
    (/\ AnalyzesSymbol
     /\ log' # "FATAL ERROR"
     /\ last_fetched_df'.rows >= 2
     /\ last_processed_candle[ConfigSymbols[sym_i]] = last_fetched_df'.last_candle_ts) =>
        /\ orders' = orders
        /\ last_processed_candle' = last_processed_candle

\* The candle is recorded exactly by the iterations that reach the end of
\* the try block, and only those send orders.
RecordedWhenFinished ==
    AnalyzesSymbol =>
        /\ last_processed_candle' =
             IF log' = "New candle"
             THEN [last_processed_candle EXCEPT
                     ![ConfigSymbols[sym_i]] = last_fetched_df'.last_candle_ts]
             ELSE last_processed_candle
        /\ orders' # orders => log' = "New candle"

\* C37: for each analysis symbol StrategyBot.run_check acts on a closed
\* candle at most once: once the candle's timestamp is recorded in
\* last_processed_candle, every later iteration that still observes it as
\* the symbol's last closed candle places no signal-driven order; the candle
\* is recorded only when the handling finished without raising.
C37_CandleHandledOnce == [][RecordedCandleNotActedOn /\ RecordedWhenFinished]_vars

\* The second check sees the recorded candle of BTC/USDC again, with a buy
\* signal and no position in it, and sends nothing.
C37_Witness ==
    /\ checks = 2
    /\ sym_i = 2
    /\ log = "Pulse"
    /\ last_fetched_df.signal = 1
    /\ last_fetched_df.close = 100
    /\ last_fetched_df.last_candle_ts = last_processed_candle["BTC/USDC"]
    /\ "BTC/USDC" \notin DOMAIN open_positions
    /\ orders = << >>

\* The step is one iteration of the stop-loss loop.
ChecksStop == bot_pc = "check" /\ stop_keys # << >> /\ stop_keys' = Tail(stop_keys)

\* What the iteration leaves when the ticker reports a last price of 0.
AtPriceZero ==
    LET symbol == Head(stop_keys)
        pos    == open_positions[symbol]
    IN  IF StopLossTriggered(pos.entry_price, 0, stop_loss_pct)
        THEN [orders |-> Append(orders, Order(symbol, "sell", I(pos.amount), NoSymbol,
                                              "stop-loss")),
              open_positions |-> Deleted(open_positions, symbol)]
        ELSE [orders |-> orders, open_positions |-> open_positions]

\* Without a usable ticker the iteration does what it does at a price of 0;
\* with stop_loss_pct <= 100 it closes every position whose entry price is
\* positive.
NoTickerIsPriceZero ==
    (ChecksStop /\ (ticker'.failed \/ ~ticker'.has_last)) =>
        LET symbol == Head(stop_keys)
            pos    == open_positions[symbol]
        IN  /\ orders' = AtPriceZero.orders
            /\ open_positions' = AtPriceZero.open_positions
            /\ (stop_loss_pct <= 100 /\ pos.entry_price > 0) =>
                  /\ orders' = Append(orders, Order(symbol, "sell", I(pos.amount), NoSymbol,
                                                    "stop-loss"))
                  /\ symbol \notin DOMAIN open_positions'

\* The stop-loss orders of a check come before its signal orders, and the
\* symbols they closed are not among the positions the signal pass sees.
StopsBeforeSignals ==
    /\ \A i, j \in 1..Len(orders) :
          (orders[i].reason = "signal" /\ orders[j].reason = "stop-loss") => j < i
    /\ \A i \in 1..Len(orders) :
          orders[i].reason = "stop-loss" => orders[i].symbol \notin DOMAIN open_positions
    /\ (bot_pc = "check" /\ stop_keys # << >>) => sym_i = 1

\* C38: in the stop-loss pass of StrategyBot.run_check a failed or missing
\* ticker is indistinguishable from a price of 0: get_live_price returns 0
\* and, for stop_loss_pct <= 100, every open position with an entry price
\* > 0 is closed as a stop-loss in that check; the pass runs before any
\* signal analysis and removes the closed symbol from the positions the
\* signal pass sees.
C38_MissingTickerStopsOut == [][NoTickerIsPriceZero]_vars /\ []StopsBeforeSignals

\* fetch_ticker failed for the first position, which was closed at
\* stop_loss_pct = 100, while the second position is still to be looked at.
C38_Witness ==
    /\ bot_pc = "check"
    /\ stop_loss_pct = 100
    /\ ticker.failed
    /\ stop_keys = << "ETH/USDC" >>
    /\ orders = << Order("BTC/USDC", "sell", I(PositionAmount), NoSymbol, "stop-loss") >>
    /\ DOMAIN open_positions = {"ETH/USDC"}

\* ------------------------------------------------ claims, calculate_pnl (3)

\* The number of iterations the matching loop makes from the given lots and
\* remaining amount, counted up to a limit.
RECURSIVE Iterations(_, _, _)
Iterations(buys, s_amount, limit) ==
    IF limit > 0 /\ s_amount > 0 /\ buys # << >>
    THEN LET r == WhileBody(buys, s_amount, 0, 0)
         IN  1 + Iterations(r.buys, r.sell_amount, limit - 1)
    ELSE 0

\* An iteration dequeues the front lot or brings the remaining amount to 0.
IterationMakesProgress ==
    (pnl_pc = "while" /\ pnl_pc' = "while") =>
        \/ Len(positions'[trade.symbol].buys) = Len(positions[trade.symbol].buys) - 1
        \/ sell_amount' = 0

\* A sell enters the loop with no more iterations ahead than its symbol has
\* open lots.
IterationsBounded ==
    (pnl_pc = "rows" /\ pnl_pc' = "while") =>
        LET buys == positions'[trade'.symbol].buys
        IN  Iterations(buys, sell_amount', Len(buys) + 1) <= Len(buys)

\* C39: the lot-matching loop of calculate_pnl terminates for every sell:
\* each iteration dequeues the symbol's front lot or reduces the remaining
\* sell amount to 0, a sell makes at most as many iterations as the symbol
\* has open lots, and the computation finishes after one pass over the
\* trade history.
C39_MatchingTerminates ==
    /\ [][IterationMakesProgress /\ IterationsBounded]_vars
    /\ (pnl_pc = "while") ~> (pnl_pc = "rows")
    /\ <>(pnl_pc = "done")

\* A sell that took two iterations, one per open lot of its symbol, has
\* been closed and the frame returned.
C39_Witness ==
    /\ pnl_pc = "done"
    /\ Len(trade_rows) = 3
    /\ trade_rows[1].side = "buy" /\ trade_rows[2].side = "buy"
    /\ trade_rows[3].side = "sell"
    /\ trade_rows[1].symbol = trade_rows[3].symbol
    /\ trade_rows[2].symbol = trade_rows[3].symbol
    /\ trade_rows[3].amount > trade_rows[1].amount
    /\ Len(closed_trades) = 1

====
